---------------------------- MODULE Spec2Model ----------------------------
(***************************************************************************)
(* A model of large_models/trainer.py: the MeZO zeroth-order estimator     *)
(* (OurTrainer.zo_step / zo_perturb_parameters / zo_update) and the DiZO   *)
(* trust-region projection (DiZO, dizo_trainer).                           *)
(*                                                                         *)
(* Numbers.  A tensor element is an exact rational <<n, d>> in lowest      *)
(* terms with d > 0, or one of the three non-finite values of the float    *)
(* formats: <<1, 0>> = +inf, <<-1, 0>> = -inf, <<0, 0>> = nan.  The        *)
(* operations follow IEEE-754 on the non-finite values (x/0, inf - inf,    *)
(* 0 * inf, nan propagation); rounding is not modelled (the arithmetic of  *)
(* finite values is exact) and zero carries no sign.                       *)
(***************************************************************************)
EXTENDS Integers, Sequences, FiniteSets, TLC

AbsI(x) == IF x < 0 THEN -x ELSE x

SgnI(x) == IF x < 0 THEN -1 ELSE IF x > 0 THEN 1 ELSE 0

RECURSIVE Gcd(_, _)
Gcd(a, b) == IF b = 0 THEN a ELSE Gcd(b, a % b)

\* the number n/d in lowest terms; d = 0 gives +inf, -inf or nan by the sign of n
Q(n, d) ==
    IF d = 0 THEN <<SgnI(n), 0>>
    ELSE LET g == Gcd(AbsI(n), AbsI(d))
             s == SgnI(d)
         IN  <<(s * n) \div g, (s * d) \div g>>

I(k) == <<k, 1>>

NaN == <<0, 0>>

PosInf == <<1, 0>>

NegInf == <<-1, 0>>

IsFinite(a) == a[2] > 0

IsNaN(a) == a = NaN

IsInf(a) == a[2] = 0 /\ a[1] # 0

Neg(a) == <<-a[1], a[2]>>

Add(a, b) ==
    IF IsInf(a) /\ IsInf(b) THEN (IF a = b THEN a ELSE NaN)
    ELSE IF ~IsFinite(a) \/ ~IsFinite(b) THEN Q(a[1] * b[2] + b[1] * a[2], 0)
    ELSE LET g == Gcd(a[2], b[2])
         IN  Q(a[1] * (b[2] \div g) + b[1] * (a[2] \div g), (a[2] \div g) * b[2])

Sub(a, b) == Add(a, Neg(b))

Mul(a, b) ==
    IF ~IsFinite(a) \/ ~IsFinite(b) THEN Q(a[1] * b[1], 0)
    ELSE LET g1 == Gcd(AbsI(a[1]), b[2])
             g2 == Gcd(AbsI(b[1]), a[2])
         IN  Q((a[1] \div g1) * (b[1] \div g2), (a[2] \div g2) * (b[2] \div g1))

\* 1/a: 1/0 = +inf, 1/inf = 0, 1/nan = nan
Inv(a) == IF a[2] = 0 THEN (IF a[1] = 0 THEN NaN ELSE I(0)) ELSE Q(a[2], a[1])

Div(a, b) == Mul(a, Inv(b))

\* a < b; false when either is nan
Lt(a, b) ==
    IF IsNaN(a) \/ IsNaN(b) THEN FALSE
    ELSE IF ~IsFinite(a) \/ ~IsFinite(b)
         THEN (a # b) /\ (a = NegInf \/ b = PosInf)
    ELSE LET g == Gcd(a[2], b[2])
         IN  a[1] * (b[2] \div g) < b[1] * (a[2] \div g)

\* a <= b; false when either is nan
Le(a, b) == ~IsNaN(a) /\ ~IsNaN(b) /\ ~Lt(b, a)

AbsQ(a) == <<AbsI(a[1]), a[2]>>

\* torch.clip(x, lo, hi) = min(max(x, lo), hi), nan if any of the three is nan
Clip(x, lo, hi) ==
    IF IsNaN(x) \/ IsNaN(lo) \/ IsNaN(hi) THEN NaN
    ELSE LET m == IF Lt(x, lo) THEN lo ELSE x
         IN  IF Lt(hi, m) THEN hi ELSE m


(***************************************************************************)
(* Tensors are sequences of numbers; the operations are elementwise.       *)
(***************************************************************************)
TAdd(t, u) == [k \in 1..Len(t) |-> Add(t[k], u[k])]

TSub(t, u) == [k \in 1..Len(t) |-> Sub(t[k], u[k])]

\* a tensor times a scalar
TScale(t, c) == [k \in 1..Len(t) |-> Mul(t[k], c)]

\* a tensor divided by a scalar
TDiv(t, c) == [k \in 1..Len(t) |-> Div(t[k], c)]

TFinite(t) == \A k \in 1..Len(t) : IsFinite(t[k])

RECURSIVE SumQ(_)
SumQ(t) == IF Len(t) = 0 THEN I(0) ELSE Add(Head(t), SumQ(Tail(t)))

RECURSIVE MaxAbsQ(_)
MaxAbsQ(t) ==
    IF Len(t) = 1 THEN AbsQ(t[1])
    ELSE LET m == MaxAbsQ(Tail(t))
         IN  IF Lt(m, AbsQ(t[1])) THEN AbsQ(t[1]) ELSE m

\* the square root of a natural number that is a perfect square
ISqrt(n) == CHOOSE k \in 0..n : k * k = n

\* the square root of a non-negative finite number whose root is rational
SqrtQ(a) == Q(ISqrt(a[1]), ISqrt(a[2]))

\* torch.norm(t): the Euclidean norm over the whole tensor, computed on the
\* tensor scaled by its largest magnitude
NormL2(t) ==
    IF \E k \in 1..Len(t) : IsNaN(t[k]) THEN NaN
    ELSE IF \E k \in 1..Len(t) : IsInf(t[k]) THEN PosInf
    ELSE LET m == MaxAbsQ(t)
         IN  IF m = I(0) THEN I(0)
             ELSE Mul(m, SqrtQ(SumQ([k \in 1..Len(t) |->
                                      Mul(Div(t[k], m), Div(t[k], m))])))

\* torch.sum(torch.abs(t), dim=tuple(range(1, t.dim())), keepdim=True) of a
\* weight of one row: the sum of the magnitudes of the elements of the row
NormL1(t) == SumQ([k \in 1..Len(t) |-> AbsQ(t[k])])

\* Python's  pat in s  on strings
Contains(s, pat) ==
    \E k \in 1..(Len(s) - Len(pat) + 1) : SubSeq(s, k, k + Len(pat) - 1) = pat

(***************************************************************************)
(* The model under training: model.named_parameters() in enumeration       *)
(* order (an OPT decoder cut down to six tensors), with each tensor's      *)
(* number of elements.                                                     *)
(***************************************************************************)
ParamNames ==
    << "model.decoder.embed_tokens.weight",
       "model.decoder.layers.0.self_attn.k_proj.weight",
       "model.decoder.layers.0.self_attn.k_proj.bias",
       "model.decoder.layers.0.self_attn.v_proj.weight",
       "model.decoder.layers.0.self_attn.q_proj.weight",
       "model.decoder.layers.0.final_layer_norm.weight" >>

ParamSize == <<1, 1, 1, 1, 2, 1>>

NP == Len(ParamNames)

Params == 1..NP

ParamSeq == [i \in 1..NP |-> i]

Range(seq) == {seq[k] : k \in 1..Len(seq)}

\* lines 885-888: the parameters with requires_grad, in enumeration order
TrainableSeq(rg) == SelectSeq(ParamSeq, LAMBDA i : rg[i])

\* lines 890-896: the exclusion list of the trust region (a list of names,
\* kept as the set of the names it holds)
ExcludeListOf(rg) ==
    LET opt == TrainableSeq(rg)
    IN  IF ParamNames[opt[1]] # "model.decoder.embed_tokens.weight"
        THEN {ParamNames[i] : i \in {j \in Params : ~Contains(ParamNames[j], "lora")}}
        ELSE {"model.decoder.embed_tokens.weight"} \cup
             {ParamNames[i] : i \in {j \in Range(opt) :
                  /\ ~Contains(ParamNames[j], "self_attn.v_proj.weight")
                  /\ ~Contains(ParamNames[j], "self_attn.k_proj.weight")}}

\* lines 885-896: named_parameters_to_optim, the first entry dropped when it
\* is the embedding
ToOptimOf(rg) ==
    LET opt == TrainableSeq(rg)
    IN  IF ParamNames[opt[1]] # "model.decoder.embed_tokens.weight"
        THEN opt ELSE Tail(opt)

(***************************************************************************)
(* The pseudorandom generator.  Its state is the seed it was last seeded   *)
(* with and the number of values drawn since; a draw is a function of the  *)
(* two.  The values stand for samples of the standard normal.              *)
(***************************************************************************)
ZVals == <<-5, 1, 0, -1, 2>>

Draw(seed, pos) == I(ZVals[((seed * 3 + pos * (seed + 2) + pos * pos) % Len(ZVals)) + 1])

\* torch.manual_seed
ManualSeed(seed) == [seed |-> seed, pos |-> 0]

\* torch.normal(mean=0, std=1, size=n) on generator state g: the values drawn
NormalDraw(g, n) == [k \in 1..n |-> Draw(g.seed, g.pos + k - 1)]

\* the generator state after drawing n values
Advance(g, n) == [seed |-> g.seed, pos |-> g.pos + n]


(***************************************************************************)
(* State.                                                                  *)
(***************************************************************************)
VARIABLES
    theta,                      \* the live model: parameter index -> tensor
    anchor,                     \* base_model / pre_trained: the frozen copy
    requires_grad,              \* the live model's requires_grad flags
    named_parameters_to_optim,  \* the parameters the estimator optimises
    exclude_list,               \* names excluded from the trust region
    zo_eps,                     \* args.zo_eps
    lr,                         \* self._get_learning_rate()
    weight_decay,               \* args.weight_decay
    gradient_accumulation_steps,
    enhanced,                   \* args.enhanced: "zo", "fo" or "none"
    zo_random_seed,             \* -1 before the first zo_step
    rng,                        \* the state of torch's generator
    projected_grad,
    loss1,                      \* the locals loss1, loss2 of zo_step
    loss2,
    tr_loss_step,               \* what zo_step returned
    global_step,                \* self.state.global_step
    norm_mode,                  \* DiZO.norm_mode
    constraints,                \* DiZO.constraints: the radii, a sequence
    constraints_name,           \* DiZO.constraints_name
    dizo_init,                  \* DiZO.init
    alpha,                      \* DiZO.alpha: parameter name -> ratio
    include_list,               \* DiZO.include_list
    ts,                         \* the locals ts, zs, loss1, loss2 of zo_forward
    zs,
    dloss1,
    dloss2,
    count,                      \* dizo_trainer.count
    max_iters,                  \* dizo_trainer.max_iters
    dizo_i,                     \* dizo_trainer.i
    loader_len,                 \* the number of batches of pgmloader
    loader_pos,                 \* batches dataset_iterator has handed out
    pc,                         \* the position of the program
    raised,                     \* the exception that ended the run, or "none"
    theta_start,                \* history: theta when the operation began
    zlog,                       \* history: the z drawn by each regeneration
    evals,                      \* history: the loss evaluations of the operation
    oplog,                      \* history: the operations performed, in order
    r0,                         \* history: the norms the radii were last reset to
    gamma0,                     \* history: the radii before the probes of the iteration
    tr_loss,                    \* the local tr_loss of _inner_training_loop
    loss_list,                  \* self.loss_list
    globalstep_last_logged,     \* self._globalstep_last_logged
    logging_nan_inf_filter,     \* args.logging_nan_inf_filter
    max_steps,                  \* the step at which the loop ends
    tr_loss_prev,               \* history: tr_loss before the last accumulation
    bad_step,                   \* history: an evaluation of the last step was nan/inf
    updates,                    \* history: the parameter updates of zo_update so far
    sched_steps,                \* history: the calls of lr_scheduler.step() so far
    eval_steps,                 \* args.eval_steps
    objective,                  \* self.objective
    best_model_ckpt,            \* self.best_model_ckpt, None while it is not set
    accuracy                    \* self.accuracy: the metrics evaluated so far

modelVars == <<theta, anchor, requires_grad, named_parameters_to_optim, exclude_list>>

argVars == <<zo_eps, lr, weight_decay, gradient_accumulation_steps, enhanced>>

zoVars == <<zo_random_seed, rng, projected_grad, loss1, loss2, tr_loss_step, global_step>>

dizoVars == <<norm_mode, constraints, constraints_name, dizo_init, alpha, include_list,
              ts, zs, dloss1, dloss2>>

trainerVars == <<count, max_iters, dizo_i, loader_len, loader_pos>>

histVars == <<theta_start, zlog, evals, oplog>>

dizoHist == <<r0, gamma0>>

loopVars == <<tr_loss, loss_list, globalstep_last_logged, logging_nan_inf_filter, max_steps>>

loopHist == <<tr_loss_prev, bad_step, updates, sched_steps>>

evalVars == <<eval_steps, objective, best_model_ckpt, accuracy>>

vars == <<modelVars, argVars, zoVars, dizoVars, trainerVars, pc, raised, histVars,
          dizoHist, loopVars, loopHist, evalVars>>

\* a variable that holds no value yet
None == <<>>

(***************************************************************************)
(* Bounds and input sets.                                                  *)
(***************************************************************************)
\* seeds np.random.randint may return are 0 .. NumSeeds - 1
NumSeeds == 2

\* optimizer steps of a run
MaxSteps == 1

Seeds == 0..(NumSeeds - 1)

\* the values a loss evaluation of a model with finite parameters may return
LossVals == {I(1), I(2), NaN, PosInf}

\* the loss of the model th on a batch: a forward pass through a parameter
\* that is not finite gives nan
EvalLoss(th) == IF \A i \in Params : TFinite(th[i]) THEN LossVals ELSE {NaN}

LrVals == {I(1), Q(1, 2)}

\* args.zo_eps is a float the trainer reads as it is given: nothing between
\* the construction of the trainer and line 1317 tests its sign
ZoEpsVals == {Q(1, 1000), Q(1, 2), I(0), Q(-1, 2)}

\* args.gradient_accumulation_steps: the estimator's window, and a wider one
GradientAccumulationVals == {1, 2}

WeightDecayVals == {I(0), Q(1, 2)}

AllTrainable == [i \in Params |-> TRUE]

\* two models of the shape ParamSize
InitModels ==
    { <<<<I(1)>>, <<I(2)>>, <<I(-1)>>, <<I(3)>>, <<I(1), I(-2)>>, <<I(1)>>>>,
      <<<<I(0)>>, <<I(-3)>>, <<Q(1, 2)>>, <<I(1)>>, <<I(0), I(4)>>, <<I(2)>>>> }

(***************************************************************************)
(* OurTrainer.zo_perturb_parameters, zo_step, zo_update.                   *)
(***************************************************************************)
\* the number of values the first k entries of the list optim draw
RECURSIVE Offset(_, _)
Offset(optim, k) == IF k = 0 THEN 0 ELSE Offset(optim, k - 1) + ParamSize[optim[k]]

\* the z of every entry of optim, drawn in the order of the list from
\* generator state g: entry k -> tensor
ZDraws(g, optim) ==
    [k \in 1..Len(optim) |->
        NormalDraw(Advance(g, Offset(optim, k - 1)), ParamSize[optim[k]])]

\* the position of parameter i in the list optim (0 if it is not in it)
PosIn(optim, i) ==
    IF \E k \in 1..Len(optim) : optim[k] = i
    THEN CHOOSE k \in 1..Len(optim) : optim[k] = i ELSE 0

\* a perturbation that ignores the sign and size of scaling_factor
PerturbedUnscaled(th, g, optim, scaling_factor, eps) ==
    LET z == ZDraws(g, optim)
    IN  [i \in Params |->
            IF PosIn(optim, i) = 0 THEN th[i]
            ELSE TAdd(th[i], TScale(z[PosIn(optim, i)], eps))]

\* a perturbation that skips the steps with a negative scaling_factor
PerturbedNoBackward(th, g, optim, scaling_factor, eps) ==
    LET z == ZDraws(g, optim)
    IN  [i \in Params |->
            IF PosIn(optim, i) = 0 \/ scaling_factor < 0 THEN th[i]
            ELSE TAdd(th[i], TScale(TScale(z[PosIn(optim, i)], I(scaling_factor)), eps))]

\* lines 1174-1176: param.data = param.data + scaling_factor * z * zo_eps for
\* every entry of named_parameters_to_optim, z drawn from generator state g
Perturbed(th, g, optim, scaling_factor, eps) ==
    LET z == ZDraws(g, optim)
    IN  [i \in Params |->
            IF PosIn(optim, i) = 0 THEN th[i]
            ELSE TAdd(th[i], TScale(TScale(z[PosIn(optim, i)], I(scaling_factor)), eps))]

\* a perturbation that draws on from wherever the generator stands
PerturbGeneratorNotReseeded == rng

\* line 1172, random_seed is None: the generator zo_perturb_parameters draws
\* from, reseeded with the stored seed
PerturbGenerator == ManualSeed(zo_random_seed)

\* a weight-decay test that forgets the normalisation layers
DecayedBiasOnly(name) == ~Contains(name, "bias")

\* line 1339: the tensors that get weight decay
Decayed(name) ==
    /\ ~Contains(name, "bias")
    /\ ~Contains(name, "layer_norm")
    /\ ~Contains(name, "layernorm")

\* an update that draws on from wherever the generator stands
UpdateGeneratorNotReseeded == rng

\* the generator zo_update draws from: reseeded with the stored seed (line 1334)
UpdateGenerator == ManualSeed(zo_random_seed)

\* lines 1336-1343: the update of every entry of named_parameters_to_optim
Updated(th, g, optim, rate, grad, wd) ==
    LET z == ZDraws(g, optim)
    IN  [i \in Params |->
            IF PosIn(optim, i) = 0 THEN th[i]
            ELSE IF Decayed(ParamNames[i])
                 THEN TSub(th[i], TScale(TAdd(TScale(z[PosIn(optim, i)], grad),
                                              TScale(th[i], wd)), rate))
                 ELSE TSub(th[i], TScale(TScale(z[PosIn(optim, i)], grad), rate))]

\* a base model that is the live model itself, not a copy of it
BaseModelAliased(anc, live) == live

\* lines 898-900: base_model = copy.deepcopy(self.model) shares no tensor with
\* the live model, so a write to the live model (now live) leaves it as it is
BaseModel(anc, live) == anc

\* zo_perturb_parameters(scaling_factor) called at position from of zo_step
ZoPerturbParameters(from, scaling_factor, to) ==
    /\ pc = from
    /\ LET g == PerturbGenerator
       IN  /\ theta' = Perturbed(theta, g, named_parameters_to_optim, scaling_factor, zo_eps)
           /\ rng' = Advance(g, Offset(named_parameters_to_optim,
                                       Len(named_parameters_to_optim)))
           /\ zlog' = Append(zlog, ZDraws(g, named_parameters_to_optim))
    /\ anchor' = BaseModel(anchor, theta')
    /\ oplog' = Append(oplog, <<"perturb", scaling_factor>>)
    /\ pc' = to

\* zo_step, line 1307: sample and store the seed
ZoStepSeed ==
    /\ pc = "idle"
    /\ global_step < max_steps
    /\ \E s \in Seeds : zo_random_seed' = s
    /\ pc' = "zs_perturb1"
    /\ theta_start' = theta
    /\ zlog' = <<>>
    /\ evals' = <<>>
    /\ oplog' = <<>>
    /\ UNCHANGED <<evalVars, loopVars, loopHist,
                   modelVars, argVars, rng, projected_grad, loss1, loss2, tr_loss_step,
                   global_step, dizoVars, trainerVars, dizoHist, raised>>

\* line 1310
ZoStepPerturb1 ==
    /\ ZoPerturbParameters("zs_perturb1", 1, "zs_forward1")
    /\ UNCHANGED <<evalVars, loopVars, loopHist,
                   requires_grad, named_parameters_to_optim, exclude_list, argVars,
                   zo_random_seed, projected_grad, loss1, loss2, tr_loss_step, global_step,
                   dizoVars, trainerVars, dizoHist, raised, theta_start, evals>>

\* line 1311
ZoStepForward1 ==
    /\ pc = "zs_forward1"
    /\ \E l \in EvalLoss(theta) :
          /\ loss1' = l
          /\ evals' = Append(evals, [at |-> theta, loss |-> l])
    /\ oplog' = Append(oplog, <<"forward", 1>>)
    /\ pc' = "zs_perturb2"
    /\ UNCHANGED <<evalVars, loopVars, loopHist,
                   modelVars, argVars, zo_random_seed, rng, projected_grad, loss2,
                   tr_loss_step, global_step, dizoVars, trainerVars, dizoHist, raised,
                   theta_start, zlog>>

\* line 1314
ZoStepPerturb2 ==
    /\ ZoPerturbParameters("zs_perturb2", -2, "zs_forward2")
    /\ UNCHANGED <<evalVars, loopVars, loopHist,
                   requires_grad, named_parameters_to_optim, exclude_list, argVars,
                   zo_random_seed, projected_grad, loss1, loss2, tr_loss_step, global_step,
                   dizoVars, trainerVars, dizoHist, raised, theta_start, evals>>

\* line 1315
ZoStepForward2 ==
    /\ pc = "zs_forward2"
    /\ \E l \in EvalLoss(theta) :
          /\ loss2' = l
          /\ evals' = Append(evals, [at |-> theta, loss |-> l])
    /\ oplog' = Append(oplog, <<"forward", 2>>)
    /\ pc' = "zs_grad"
    /\ UNCHANGED <<evalVars, loopVars, loopHist,
                   modelVars, argVars, zo_random_seed, rng, projected_grad, loss1,
                   tr_loss_step, global_step, dizoVars, trainerVars, dizoHist, raised,
                   theta_start, zlog>>

\* the two evaluations subtracted the wrong way round
ProjectedGradSwapped(l1, l2, eps) == Div(Sub(l2, l1), Mul(I(2), eps))

\* line 1317
ProjectedGrad(l1, l2, eps) == Div(Sub(l1, l2), Mul(I(2), eps))

\* lines 1317-1320: store the projected gradient, then the assertion on the
\* accumulation window
ZoStepGrad ==
    /\ pc = "zs_grad"
    /\ projected_grad' = ProjectedGrad(loss1, loss2, zo_eps)
    /\ IF gradient_accumulation_steps = 1
       THEN pc' = "zs_perturb3" /\ raised' = raised
       ELSE pc' = "raised" /\ raised' = "AssertionError"
    /\ UNCHANGED <<evalVars, loopVars, loopHist,
                   modelVars, argVars, zo_random_seed, rng, loss1, loss2, tr_loss_step,
                   global_step, dizoVars, trainerVars, dizoHist, histVars>>

\* lines 1323-1325: restore the parameters and return loss1
ZoStepPerturb3 ==
    /\ ZoPerturbParameters("zs_perturb3", 1, "zs_returned")
    /\ tr_loss_step' = loss1
    /\ loss1' = None
    /\ loss2' = None
    /\ UNCHANGED <<evalVars, loopVars, loopHist,
                   requires_grad, named_parameters_to_optim, exclude_list, argVars,
                   zo_random_seed, projected_grad, global_step,
                   dizoVars, trainerVars, dizoHist, raised, theta_start, evals>>

\* line 982: the amount added to tr_loss in place of a nan or inf step loss
FallbackLoss(total, step, last_logged) == Div(total, I(1 + step - last_logged))

\* lines 977-985: the step loss is added to tr_loss, unless the filter is on
\* and the step loss is nan or inf
AccumulateLoss ==
    /\ pc = "zs_returned"
    /\ tr_loss' = IF logging_nan_inf_filter /\ (IsNaN(tr_loss_step) \/ IsInf(tr_loss_step))
                  THEN Add(tr_loss, FallbackLoss(tr_loss, global_step, globalstep_last_logged))
                  ELSE Add(tr_loss, tr_loss_step)
    /\ tr_loss_prev' = tr_loss
    /\ bad_step' = \E k \in 1..Len(evals) : ~IsFinite(evals[k].loss)
    /\ pc' = "zs_accumulated"
    /\ UNCHANGED <<evalVars, modelVars, argVars, zoVars, dizoVars, trainerVars, dizoHist, raised,
                   histVars, loss_list, globalstep_last_logged, logging_nan_inf_filter,
                   max_steps, updates, sched_steps>>

\* line 1345: the adaptation runs when (global_step + 1) % 50 = 0
AdaptEvery == 50

\* a cadence test on the count of the steps already taken
AdaptationDueBeforeCount(step, mode) == step % AdaptEvery = 0 /\ mode # "none"

\* line 1345: (self.state.global_step + 1) % 50 == 0 and args.enhanced, the
\* mode being None unless it is 'zo' or 'fo' (lines 899-908)
AdaptationDue(step, mode) == (step + 1) % AdaptEvery = 0 /\ mode # "none"

\* zo_update, lines 1334-1345: reseed, redraw z and update every parameter;
\* then the cadence test of the trust-region adaptation
ZoUpdate ==
    /\ pc = "zs_accumulated"
    /\ LET g == UpdateGenerator
       IN  /\ theta' = Updated(theta, g, named_parameters_to_optim, lr, projected_grad,
                               weight_decay)
           /\ rng' = Advance(g, Offset(named_parameters_to_optim,
                                       Len(named_parameters_to_optim)))
           /\ zlog' = Append(zlog, ZDraws(g, named_parameters_to_optim))
    /\ oplog' = Append(oplog, <<"update", 0>>)
    /\ pc' = IF AdaptationDue(global_step, enhanced) THEN "zu_adapt" ELSE "zu_sched"
    /\ updates' = updates + 1
    /\ anchor' = BaseModel(anchor, theta')
    /\ UNCHANGED <<evalVars, loopVars, tr_loss_prev, bad_step, sched_steps,
                   requires_grad, named_parameters_to_optim, exclude_list, argVars,
                   zo_random_seed, projected_grad, loss1, loss2, tr_loss_step, global_step,
                   dizoVars, trainerVars, dizoHist, raised, theta_start, evals>>

\* the rates a scheduler step may move the rate to: it keeps it or decays it
LrSchedule(rate) == {rate, Mul(rate, Q(1, 2))}

\* line 1352: lr_scheduler.step(); the schedule is the scheduler's
LrSchedulerStep ==
    /\ pc = "zu_sched"
    /\ \E r \in LrSchedule(lr) : lr' = r
    /\ pc' = "zu_done"
    /\ sched_steps' = sched_steps + 1
    /\ UNCHANGED <<evalVars, loopVars, tr_loss_prev, bad_step, updates,
                   modelVars, zo_eps, weight_decay, gradient_accumulation_steps, enhanced,
                   zoVars, dizoVars, trainerVars, dizoHist, raised, histVars>>

\* args.eval_steps as it is configured: 500, as in the other runs of this
\* module, or every step
ConfiguredEvalSteps == {500, 1}

\* a replacement of the best checkpoint that needs a strictly better metric
BestReplacedStrict(metric, best) == Lt(best, metric)

\* line 1079: metrics[metric_name] >= self.objective
BestReplaced(metric, best) == Le(best, metric)

\* line 1055: self.args.eval_steps = 200
EvalSteps == 200

\* the values of the metric local_evaluate may return (lines 1072-1073)
MetricVals == {I(-1), I(0), Q(1, 2), I(1)}

\* lines 883 and 911: self.objective = 0 and self.accuracy = []; nothing sets
\* best_model_ckpt before the first evaluation that is at least the objective
EvalStart ==
    /\ objective = I(0)
    /\ best_model_ckpt = None
    /\ accuracy = <<>>

\* lines 1052-1082: the step is counted, eval_steps is set to 200 and the
\* step loss appended to loss_list (the history of the step is dropped);
\* when the count is a multiple of eval_steps the model is evaluated, the
\* metric appended to self.accuracy and, when it is at least the objective,
\* the objective and the best checkpoint are replaced
StepEnd ==
    /\ pc = "zu_done"
    /\ global_step' = global_step + 1
    /\ eval_steps' = EvalSteps
    /\ loss_list' = Append(loss_list, tr_loss_step)
    /\ IF global_step' % eval_steps' = 0
       THEN \E m \in MetricVals :
               /\ accuracy' = Append(accuracy, m)
               /\ IF BestReplaced(m, objective)
                  THEN /\ objective' = m
                       /\ best_model_ckpt' = theta
                  ELSE UNCHANGED <<objective, best_model_ckpt>>
       ELSE UNCHANGED <<objective, best_model_ckpt, accuracy>>
    /\ pc' = "idle"
    /\ theta_start' = theta
    /\ zlog' = <<>>
    /\ evals' = <<>>
    /\ oplog' = <<>>
    /\ UNCHANGED <<tr_loss, globalstep_last_logged, logging_nan_inf_filter, max_steps,
                   loopHist,
                   modelVars, argVars, zo_random_seed, rng, projected_grad, loss1, loss2,
                   tr_loss_step, dizoVars, trainerVars, dizoHist, raised>>

\* the state of the trust-region objects when none is in use
DizoUnused ==
    /\ norm_mode = "l2norm"
    /\ constraints = <<>>
    /\ constraints_name = <<>>
    /\ dizo_init = TRUE
    /\ alpha = <<>>
    /\ include_list = <<>>
    /\ ts = None /\ zs = None /\ dloss1 = None /\ dloss2 = None
    /\ count = 0 /\ max_iters = 0 /\ dizo_i = 0
    /\ loader_len = 1 /\ loader_pos = 0
    /\ r0 = None
    /\ gamma0 = None

\* lines 858-861: the loop's bookkeeping when training begins
LoopStart ==
    /\ tr_loss = I(0)
    /\ loss_list = <<>>
    /\ globalstep_last_logged = global_step
    /\ logging_nan_inf_filter = TRUE
    /\ tr_loss_prev = I(0)
    /\ bad_step = FALSE
    /\ updates = 0
    /\ sched_steps = 0

\* a run of the zeroth-order trainer without trust-region enhancement
InitZO ==
    /\ theta \in InitModels
    /\ anchor = theta
    /\ requires_grad = AllTrainable
    /\ named_parameters_to_optim = ToOptimOf(AllTrainable)
    /\ exclude_list = ExcludeListOf(AllTrainable)
    /\ zo_eps \in ZoEpsVals
    /\ lr \in LrVals
    /\ weight_decay \in WeightDecayVals
    /\ gradient_accumulation_steps \in GradientAccumulationVals
    /\ enhanced = "none"
    /\ zo_random_seed = -1
    /\ rng \in {ManualSeed(s) : s \in Seeds}
    /\ projected_grad = None
    /\ loss1 = None /\ loss2 = None /\ tr_loss_step = None
    /\ global_step = 0
    /\ max_steps = MaxSteps
    /\ LoopStart
    /\ eval_steps = 500
    /\ EvalStart
    /\ DizoUnused
    /\ pc = "idle"
    /\ raised = "none"
    /\ theta_start = theta
    /\ zlog = <<>> /\ evals = <<>> /\ oplog = <<>>

NextZO ==
    \/ ZoStepSeed
    \/ ZoStepPerturb1
    \/ ZoStepForward1
    \/ ZoStepPerturb2
    \/ ZoStepForward2
    \/ ZoStepGrad
    \/ ZoStepPerturb3
    \/ AccumulateLoss
    \/ ZoUpdate
    \/ LrSchedulerStep
    \/ StepEnd

SpecZO == InitZO /\ [][NextZO]_vars


(***************************************************************************)
(* DiZO: the trust-region projection.                                      *)
(***************************************************************************)
\* the denominator of the stabiliser 1e-8 of line 314
EpsDen == 100000000

\* line 314: 1e-8
Eps == Q(1, EpsDen)

\* an enumeration that forgets the exclusion list
IncludedSeqAll(excl) == ParamSeq

\* the parameters whose name is not in the exclusion list, in enumeration order
IncludedSeq(excl) == SelectSeq(ParamSeq, LAMBDA i : ParamNames[i] \notin excl)

\* DiZO.create_contraint, lines 249-256: one radius, 0, for every parameter
\* that is not excluded and requires grad; the names in enumeration order
ConstraintNames(rg, excl) ==
    LET idx == SelectSeq(ParamSeq, LAMBDA i : ParamNames[i] \notin excl /\ rg[i])
    IN  [k \in 1..Len(idx) |-> ParamNames[idx[k]]]

\* lines 307-310: the norm of the deviation under the norm mode.  A weight is
\* held as a matrix of one row, so the MARS norm, the sum of absolute values
\* along every dimension but the first, is the sum over that row.
DeviationNorm(t, mode) == IF Contains(mode, "l2") THEN NormL2(t) ELSE NormL1(t)

\* a ratio that only ever shrinks the deviation: a clamp, not a rescale
ProjectRatioClamped(new, anc, constraint, mode) ==
    LET r == Div(constraint, Add(DeviationNorm(TSub(new, anc), mode), Eps))
    IN  IF Lt(I(1), r) THEN I(1) ELSE r

\* DiZO._project_ratio, lines 303-315
ProjectRatio(new, anc, constraint, mode) ==
    Div(constraint, Add(DeviationNorm(TSub(new, anc), mode), Eps))

\* a projection that leaves out the anchor it has to add back
ProjectedNoAnchor(new, anc, a) == TScale(TSub(new, anc), a)

\* lines 280-281: anchor + (new - anchor) * alpha
Projected(new, anc, a) == TAdd(TScale(TSub(new, anc), a), anc)

\* a reverse that leaves out the anchor it has to add back
UnprojectedNoAnchor(new, anc, a) == TDiv(TSub(new, anc), a)

\* lines 297-298: anchor + (new - anchor) / alpha
Unprojected(new, anc, a) == TAdd(TDiv(TSub(new, anc), a), anc)

\* DiZO.apply_constraints, lines 258-287, on the model new with the radii cons
\* read through a fresh iterator.  The k-th parameter that is not excluded
\* takes the k-th radius; next() on the exhausted iterator raises
\* StopIteration at the first such parameter left without one.  The result:
\* the model, the ratios by name, include_list, the requires_grad flags and
\* the exception.
ApplyConstraints(new, pre, cons, excl, mode, rg) ==
    LET inc  == IncludedSeq(excl)
        n    == IF Len(inc) <= Len(cons) THEN Len(inc) ELSE Len(cons)
        done == {inc[k] : k \in 1..n}
        last == IF Len(inc) <= Len(cons) THEN NP ELSE inc[n + 1]
        a(k) == ProjectRatio(new[inc[k]], pre[inc[k]], cons[k], mode)
    IN  [ model   |-> [i \in Params |->
                         IF i \in done
                         THEN Projected(new[i], pre[i], a(PosIn(inc, i)))
                         ELSE new[i]],
          alpha   |-> [nm \in {ParamNames[i] : i \in done} |->
                         a(CHOOSE k \in 1..n : ParamNames[inc[k]] = nm)],
          include |-> [k \in 1..n |-> ParamNames[inc[k]]],
          rg      |-> [i \in Params |-> IF i <= last THEN FALSE ELSE rg[i]],
          raised  |-> IF Len(inc) <= Len(cons) THEN "none" ELSE "StopIteration" ]

\* DiZO.reverse_constraints, lines 289-301, with the cached ratios al.  A
\* parameter that is not excluded and has no cached ratio raises KeyError.
ReverseConstraints(new, pre, al, excl, rg) ==
    LET inc  == IncludedSeq(excl)
        miss == {k \in 1..Len(inc) : ParamNames[inc[k]] \notin DOMAIN al}
        n    == IF miss = {} THEN Len(inc)
                ELSE (CHOOSE k \in miss : \A j \in miss : k <= j) - 1
        done == {inc[k] : k \in 1..n}
        last == IF miss = {} THEN NP ELSE inc[n + 1]
    IN  [ model  |-> [i \in Params |->
                        IF i \in done
                        THEN Unprojected(new[i], pre[i], al[ParamNames[i]])
                        ELSE new[i]],
          rg     |-> [i \in Params |-> IF i <= last THEN FALSE ELSE rg[i]],
          raised |-> IF miss = {} THEN "none" ELSE "KeyError" ]

(***************************************************************************)
(* The projection on its own: a DiZO object built for an exclusion list,   *)
(* its radii set, one apply_constraints and then one reverse_constraints.  *)
(***************************************************************************)
ProjExcludeLists ==
    { ExcludeListOf(AllTrainable),
      Range(ParamNames) \ {"model.decoder.layers.0.self_attn.q_proj.weight"},
      Range(ParamNames) \ {"model.decoder.layers.0.self_attn.q_proj.weight",
                           "model.decoder.layers.0.self_attn.v_proj.weight"} }

ProjAnchor == << <<I(0)>>, <<I(1)>>, <<I(0)>>, <<I(-1)>>, <<I(0), I(0)>>, <<I(1)>> >>

\* candidates: large deviations, small and zero deviations, deviations of
\* the size of the stabiliser
ProjModels ==
    { << <<I(1)>>, <<I(4)>>, <<I(2)>>, <<I(-3)>>, <<I(3), I(4)>>, <<I(1)>> >>,
      << <<I(0)>>, <<I(1)>>, <<I(1)>>, <<Q(-1, 2)>>, <<I(0), Q(-1, 2)>>, <<I(2)>> >>,
      << <<I(0)>>, <<Q(EpsDen + 3, EpsDen)>>, <<I(0)>>, <<Q(-EpsDen - 1, EpsDen)>>,
         <<Q(-4, EpsDen), Q(3, EpsDen)>>, <<I(1)>> >> }

RadiusVals == {I(0), I(1), Q(1, 2), I(3)}

NormModes == {"l2norm", "mars"}

\* every sequence of n radii
RadiiSeqs(n) == [1..n -> RadiusVals]

InitProj ==
    /\ theta \in ProjModels
    /\ anchor = ProjAnchor
    /\ requires_grad = AllTrainable
    /\ named_parameters_to_optim = ToOptimOf(AllTrainable)
    /\ exclude_list \in ProjExcludeLists
    /\ zo_eps = Q(1, 1000) /\ lr = I(1) /\ weight_decay = I(0)
    /\ gradient_accumulation_steps = 1
    /\ enhanced = "zo"
    /\ zo_random_seed = -1
    /\ rng = ManualSeed(0)
    /\ projected_grad = None
    /\ loss1 = None /\ loss2 = None /\ tr_loss_step = None
    /\ global_step = 0
    /\ norm_mode \in NormModes
    /\ constraints_name = ConstraintNames(requires_grad, exclude_list)
    /\ constraints \in RadiiSeqs(Len(constraints_name))
    /\ dizo_init = TRUE
    /\ alpha = <<>>
    /\ include_list = <<>>
    /\ ts = None /\ zs = None /\ dloss1 = None /\ dloss2 = None
    /\ count = 0 /\ max_iters = 0 /\ dizo_i = 0
    /\ loader_len = 1 /\ loader_pos = 0
    /\ r0 = None
    /\ gamma0 = None
    /\ eval_steps = 500
    /\ EvalStart
    /\ max_steps = 0
    /\ LoopStart
    /\ pc = "proj_ready"
    /\ raised = "none"
    /\ theta_start = theta
    /\ zlog = <<>> /\ evals = <<>> /\ oplog = <<>>

\* apply_constraints(model, base_model, iter(constraints))
ProjApply ==
    /\ pc = "proj_ready"
    /\ \E r \in {ApplyConstraints(theta, anchor, constraints, exclude_list, norm_mode,
                                 requires_grad)} :
           /\ theta' = r.model
           /\ alpha' = r.alpha
           /\ include_list' = r.include
           /\ requires_grad' = r.rg
           /\ raised' = r.raised
           /\ pc' = IF r.raised = "none" THEN "proj_applied" ELSE "raised"
    /\ theta_start' = theta
    /\ oplog' = Append(oplog, <<"apply", 0>>)
    /\ anchor' = BaseModel(anchor, theta')
    /\ UNCHANGED <<evalVars, loopVars, loopHist,
                   named_parameters_to_optim, exclude_list, argVars, zoVars,
                   norm_mode, constraints, constraints_name, dizo_init, ts, zs, dloss1,
                   dloss2, trainerVars, dizoHist, zlog, evals>>

\* reverse_constraints(model, base_model)
ProjReverse ==
    /\ pc = "proj_applied"
    /\ \E r \in {ReverseConstraints(theta, anchor, alpha, exclude_list, requires_grad)} :
           /\ theta' = r.model
           /\ requires_grad' = r.rg
           /\ raised' = r.raised
           /\ pc' = IF r.raised = "none" THEN "proj_reversed" ELSE "raised"
    /\ oplog' = Append(oplog, <<"reverse", 0>>)
    /\ anchor' = BaseModel(anchor, theta')
    /\ UNCHANGED <<evalVars, loopVars, loopHist,
                   named_parameters_to_optim, exclude_list, argVars, zoVars,
                   dizoVars, trainerVars, dizoHist, theta_start, zlog, evals>>

NextProj == ProjApply \/ ProjReverse

SpecProj == InitProj /\ [][NextProj]_vars

(***************************************************************************)
(* The projection called out of order: a reverse_constraints on a DiZO     *)
(* object that has never applied, or whose last apply was reversed before. *)
(***************************************************************************)
\* the candidates of ProjModels that lie at distances of the order of 1
\* from the anchor
InitUnmatched ==
    /\ InitProj
    /\ \A i \in Params : \A k \in 1..ParamSize[i] : theta[i][k][2] <= 2

\* reverse_constraints(model, base_model), lines 289-301, with whatever
\* self.alpha holds, called before any apply or after a reverse
ProjReverseUnmatched ==
    /\ pc \in {"proj_ready", "proj_reversed"}
    /\ \E r \in {ReverseConstraints(theta, anchor, alpha, exclude_list, requires_grad)} :
           /\ theta' = r.model
           /\ requires_grad' = r.rg
           /\ raised' = r.raised
           /\ pc' = IF r.raised = "none" THEN "proj_unmatched" ELSE "raised"
    /\ theta_start' = theta
    /\ oplog' = Append(oplog, <<"unmatched_reverse", 0>>)
    /\ anchor' = BaseModel(anchor, theta')
    /\ UNCHANGED <<evalVars, loopVars, loopHist,
                   named_parameters_to_optim, exclude_list, argVars, zoVars,
                   dizoVars, trainerVars, dizoHist, zlog, evals>>

NextUnmatched == ProjApply \/ ProjReverse \/ ProjReverseUnmatched

SpecUnmatched == InitUnmatched /\ [][NextUnmatched]_vars

(***************************************************************************)
(* DiZO.zo_forward and dizo_trainer: the adaptation of the radii.          *)
(***************************************************************************)
\* line 399: the 0.2 that scales a perturbation of a radius
PerturbScale == Q(1, 5)

\* line 442: the 0.4 the loss difference is divided by
GradDenominator == Q(2, 5)

\* line 443
tau == Q(1, 5)

\* line 447: the 10 that multiplies grad * z
RadiusLr == I(10)

\* lines 419-422: the L2 norm of the deviation of every parameter that is not
\* excluded, in enumeration order
DeviationNorms(new, pre, excl) ==
    LET inc == IncludedSeq(excl)
    IN  [k \in 1..Len(inc) |-> NormL2(TSub(new[inc[k]], pre[inc[k]]))]

\* lines 394-395: z = ts[i] * normal(0, 1), one draw per radius
FreshZs(norms, g, n) == [k \in 1..n |-> Mul(norms[k], Draw(g.seed, g.pos + k - 1))]

\* DiZO.perturb_gamma, line 399: gamma + delta * z * 0.2 for every radius
PerturbGamma(cons, delta, z) ==
    [k \in 1..Len(cons) |-> Add(cons[k], Mul(Mul(delta, z[k]), PerturbScale))]

\* an update that leaves out the clip to the trust-region bounds
RadiusUpdateUnclipped(gamma, grad, z, norm) == Sub(gamma, Mul(Mul(RadiusLr, grad), z))

\* lines 447-448: clip(gamma - 10 * grad * z, (1 - tau) * ts, (1 + tau) * ts)
RadiusUpdate(gamma, grad, z, norm) ==
    Clip(Sub(gamma, Mul(Mul(RadiusLr, grad), z)),
         Mul(Sub(I(1), tau), norm), Mul(Add(I(1), tau), norm))

\* a loop test that admits one iteration too many
LoopContinuesInclusive(c, k) == c <= k

\* lines 560 and 583: while self.count < self.max_iters
LoopContinues(c, k) == c < k

\* a fetch that does not restart the exhausted loader
NextBatchNoRestart(pos, len) == IF pos < len THEN pos + 1 ELSE 0

\* lines 561-565 and 585-589: next(dataset_iterator), restarted once when it
\* is exhausted; 0 when the restarted iterator is exhausted at once
NextBatch(pos, len) == IF pos < len THEN pos + 1 ELSE IF len >= 1 THEN 1 ELSE 0

\* an entry that leaves the init flag as the last invocation left it
InitOnCallKept(init) == init

\* line 559: self.dizo.init = True at every entry of dizo_zo_iters
InitOnCall(init) == TRUE

\* lines 1347-1348 and 556-559: dizo_zo_iters(model, base_model) is entered
DzCall ==
    /\ pc = "zu_adapt" /\ enhanced = "zo"
    /\ count' = 0
    /\ dizo_init' = InitOnCall(dizo_init)
    /\ pc' = "dz_loop"
    /\ theta_start' = theta
    /\ zlog' = <<>> /\ evals' = <<>>
    /\ oplog' = << <<"call", dizo_i>> >>
    /\ UNCHANGED <<evalVars, loopVars, loopHist,
                   modelVars, argVars, zoVars, norm_mode, constraints, constraints_name,
                   alpha, include_list, ts, zs, dloss1, dloss2, max_iters, dizo_i,
                   loader_len, loader_pos, raised, dizoHist>>

\* lines 560-568: the loop test and the batch of the iteration
DzFetch ==
    /\ pc = "dz_loop" /\ LoopContinues(count, max_iters)
    /\ loader_pos' = NextBatch(loader_pos, loader_len)
    /\ IF loader_pos' = 0
       THEN pc' = "raised" /\ raised' = "StopIteration"
       ELSE pc' = "dz_norms" /\ raised' = raised
    /\ oplog' = Append(oplog, <<"fetch", loader_pos'>>)
    /\ UNCHANGED <<evalVars, loopVars, loopHist,
                   modelVars, argVars, zoVars, dizoVars, count, max_iters, dizo_i,
                   loader_len, theta_start, zlog, evals, dizoHist>>

\* lines 415-428: the norms ts, the radii reset to them while init is set,
\* and perturb_gamma(1, ts=ts) with fresh draws.  ts[i] of a radius without
\* a norm raises IndexError.
DzNorms ==
    /\ pc = "dz_norms"
    /\ LET norms == DeviationNorms(theta, anchor, exclude_list)
           n     == Len(constraints)
       IN  IF Len(norms) < n
           THEN /\ pc' = "raised" /\ raised' = "IndexError"
                /\ UNCHANGED <<ts, zs, constraints, rng, r0, gamma0>>
           ELSE LET gamma == IF dizo_init THEN [k \in 1..n |-> norms[k]] ELSE constraints
                    z     == FreshZs(norms, rng, n)
                IN  /\ ts' = norms
                    /\ zs' = z
                    /\ constraints' = PerturbGamma(gamma, I(1), z)
                    /\ rng' = Advance(rng, n)
                    /\ r0' = IF dizo_init THEN norms ELSE r0
                    /\ gamma0' = gamma
                    /\ pc' = "dz_apply1" /\ raised' = raised
    /\ oplog' = Append(oplog, <<"perturb_gamma", 1>>)
    /\ UNCHANGED <<evalVars, loopVars, loopHist,
                   modelVars, argVars, zo_random_seed, projected_grad, loss1, loss2,
                   tr_loss_step, global_step, norm_mode, constraints_name, dizo_init,
                   alpha, include_list, dloss1, dloss2, trainerVars, theta_start, zlog,
                   evals>>

\* lines 430 and 437: apply_constraints(new, pre_trained, iter(constraints))
DzApply(from, k, to) ==
    /\ pc = from
    /\ \E r \in {ApplyConstraints(theta, anchor, constraints, exclude_list, norm_mode,
                                 requires_grad)} :
           /\ theta' = r.model
           /\ alpha' = r.alpha
           /\ include_list' = r.include
           /\ requires_grad' = r.rg
           /\ raised' = r.raised
           /\ pc' = IF r.raised = "none" THEN to ELSE "raised"
    /\ oplog' = Append(oplog, <<"apply", k>>)
    /\ anchor' = BaseModel(anchor, theta')
    /\ UNCHANGED <<evalVars, loopVars, loopHist,
                   named_parameters_to_optim, exclude_list, argVars, zoVars,
                   norm_mode, constraints, constraints_name, dizo_init, ts, zs, dloss1,
                   dloss2, trainerVars, theta_start, zlog, evals, dizoHist>>

\* lines 432 and 439: reverse_constraints(new, pre_trained)
DzReverse(from, k, to) ==
    /\ pc = from
    /\ \E r \in {ReverseConstraints(theta, anchor, alpha, exclude_list, requires_grad)} :
           /\ theta' = r.model
           /\ requires_grad' = r.rg
           /\ raised' = r.raised
           /\ pc' = IF r.raised = "none" THEN to ELSE "raised"
    /\ oplog' = Append(oplog, <<"reverse", k>>)
    /\ anchor' = BaseModel(anchor, theta')
    /\ UNCHANGED <<evalVars, loopVars, loopHist,
                   named_parameters_to_optim, exclude_list, argVars, zoVars,
                   dizoVars, trainerVars, theta_start, zlog, evals, dizoHist>>

\* line 430
DzApply1 == DzApply("dz_apply1", 1, "dz_forward1")

\* line 431: loss1 on the projected model
DzForward1 ==
    /\ pc = "dz_forward1"
    /\ \E l \in EvalLoss(theta) :
          /\ dloss1' = l
          /\ evals' = Append(evals, [at |-> theta, loss |-> l])
    /\ oplog' = Append(oplog, <<"forward", 1>>)
    /\ pc' = "dz_reverse1"
    /\ UNCHANGED <<evalVars, loopVars, loopHist,
                   modelVars, argVars, zoVars, norm_mode, constraints, constraints_name,
                   dizo_init, alpha, include_list, ts, zs, dloss2, trainerVars, raised,
                   theta_start, zlog, dizoHist>>

\* line 432
DzReverse1 == DzReverse("dz_reverse1", 1, "dz_perturb2")

\* line 435: perturb_gamma(-2, zs=zs)
DzPerturb2 ==
    /\ pc = "dz_perturb2"
    /\ constraints' = PerturbGamma(constraints, I(-2), zs)
    /\ oplog' = Append(oplog, <<"perturb_gamma", -2>>)
    /\ pc' = "dz_apply2"
    /\ UNCHANGED <<evalVars, loopVars, loopHist,
                   modelVars, argVars, zoVars, norm_mode, constraints_name, dizo_init,
                   alpha, include_list, ts, zs, dloss1, dloss2, trainerVars, raised,
                   theta_start, zlog, evals, dizoHist>>

\* line 437
DzApply2 == DzApply("dz_apply2", 2, "dz_forward2")

\* line 438: loss2 on the projected model
DzForward2 ==
    /\ pc = "dz_forward2"
    /\ \E l \in EvalLoss(theta) :
          /\ dloss2' = l
          /\ evals' = Append(evals, [at |-> theta, loss |-> l])
    /\ oplog' = Append(oplog, <<"forward", 2>>)
    /\ pc' = "dz_reverse2"
    /\ UNCHANGED <<evalVars, loopVars, loopHist,
                   modelVars, argVars, zoVars, norm_mode, constraints, constraints_name,
                   dizo_init, alpha, include_list, ts, zs, dloss1, trainerVars, raised,
                   theta_start, zlog, dizoHist>>

\* line 439
DzReverse2 == DzReverse("dz_reverse2", 2, "dz_update")

\* lines 441-448, then lines 570-571: perturb_gamma(1, zs=zs), the estimate
\* of the gradient, the clipped update of every radius; zo_forward returns,
\* init is cleared and count incremented
DzUpdate ==
    /\ pc = "dz_update"
    /\ LET gamma == PerturbGamma(constraints, I(1), zs)
           grad  == Div(Sub(dloss1, dloss2), GradDenominator)
       IN  constraints' = [k \in 1..Len(constraints) |->
                              RadiusUpdate(gamma[k], grad, zs[k], ts[k])]
    /\ ts' = None /\ zs' = None /\ dloss1' = None /\ dloss2' = None
    /\ dizo_init' = FALSE
    /\ count' = count + 1
    /\ oplog' = Append(oplog, <<"update", count'>>)
    /\ evals' = <<>>
    /\ gamma0' = None
    /\ pc' = "dz_loop"
    /\ UNCHANGED <<evalVars, loopVars, loopHist,
                   modelVars, argVars, zoVars, norm_mode, constraints_name, alpha,
                   include_list, max_iters, dizo_i, loader_len, loader_pos, raised,
                   theta_start, zlog, r0>>

\* the final apply of both strategies on the live model against pre_trained,
\* then self.i += 1
Commit(from) ==
    /\ pc = from /\ ~LoopContinues(count, max_iters)
    /\ \E r \in {ApplyConstraints(theta, anchor, constraints, exclude_list, norm_mode,
                                 requires_grad)} :
           /\ theta' = r.model
           /\ alpha' = r.alpha
           /\ include_list' = r.include
           /\ requires_grad' = r.rg
           /\ raised' = r.raised
           /\ pc' = IF r.raised = "none" THEN "zu_sched" ELSE "raised"
           /\ dizo_i' = IF r.raised = "none" THEN dizo_i + 1 ELSE dizo_i
    /\ oplog' = Append(oplog, <<"commit", dizo_i'>>)
    /\ anchor' = BaseModel(anchor, theta')
    /\ UNCHANGED <<evalVars, loopVars, loopHist,
                   named_parameters_to_optim, exclude_list, argVars, zoVars,
                   norm_mode, constraints, constraints_name, dizo_init, ts, zs, dloss1,
                   dloss2, count, max_iters, loader_len, loader_pos, theta_start, zlog,
                   evals, dizoHist>>

\* lines 573-574 with 405-411: zo_forward(model, self.pre_trained, apply=True)
DzCommit == Commit("dz_loop")

\* lines 1349-1350 and 579-581: dizo_iters(model, base_model) is entered
FoCall ==
    /\ pc = "zu_adapt" /\ enhanced = "fo"
    /\ count' = 0
    /\ pc' = "fo_loop"
    /\ theta_start' = theta
    /\ zlog' = <<>> /\ evals' = <<>>
    /\ oplog' = << <<"call", dizo_i>> >>
    /\ UNCHANGED <<evalVars, loopVars, loopHist,
                   modelVars, argVars, zoVars, dizoVars, max_iters, dizo_i, loader_len,
                   loader_pos, raised, dizoHist>>

\* lines 501-507: the parameters of DiZO.forward
ForwardParameters == {"new", "pre_trained", "x", "apply"}

\* line 597: the keywords of self.dizo(model, base_model, x=data, quant=quant)
ForwardKeywords == {"x", "quant"}

\* lines 598-601: one Adam step at proj_lr 0.1 moves each radius by no more
\* than the rate
AdamStep(cons) ==
    {c \in [1..Len(cons) -> {Add(cons[k], d) : k \in 1..Len(cons),
                                                d \in {Q(-1, 10), I(0), Q(1, 10)}}] :
        \A k \in 1..Len(cons) : \E d \in {Q(-1, 10), I(0), Q(1, 10)} :
            c[k] = Add(cons[k], d)}

\* lines 583-602: one iteration of the first-order loop.  The call of line
\* 597 passes a keyword forward does not take and raises TypeError.
FoIter ==
    /\ pc = "fo_loop" /\ LoopContinues(count, max_iters)
    /\ loader_pos' = NextBatch(loader_pos, loader_len)
    /\ oplog' = Append(oplog, <<"fetch", loader_pos'>>)
    /\ IF loader_pos' = 0
       THEN /\ pc' = "raised" /\ raised' = "StopIteration"
            /\ UNCHANGED <<constraints, count>>
       ELSE IF ForwardKeywords \subseteq ForwardParameters
       THEN /\ constraints' \in AdamStep(constraints)
            /\ count' = count + 1
            /\ pc' = "fo_loop" /\ raised' = raised
       ELSE /\ pc' = "raised" /\ raised' = "TypeError"
            /\ UNCHANGED <<constraints, count>>
    /\ UNCHANGED <<evalVars, loopVars, loopHist,
                   modelVars, argVars, zoVars, norm_mode, constraints_name, dizo_init,
                   alpha, include_list, ts, zs, dloss1, dloss2, max_iters, dizo_i,
                   loader_len, theta_start, zlog, evals, dizoHist>>

\* lines 603-604 with 510-516: self.dizo(model, self.pre_trained, apply=True)
FoCommit == Commit("fo_loop")

(***************************************************************************)
(* The adaptation on its own: the trainer as _inner_training_loop builds   *)
(* it, entered at the cadence point of zo_update, once every AdaptEvery    *)
(* steps.                                                                  *)
(***************************************************************************)
\* line 904: the max_iters _inner_training_loop passes to dizo_trainer
OrchestratorMaxIters == 10

MaxK == 2
MaxInvocations == 2
MaxLoader == 2

\* k hundred-millionths: parameters are taken at the scale of the stabiliser
U(k) == Q(k, EpsDen)

DizoAnchor ==
    << <<I(1)>>, <<U(2)>>, <<I(0)>>, <<U(-1)>>, <<I(1), I(-1)>>, <<I(1)>> >>

\* the live model when an adaptation begins: both included weights away
\* from the anchor, or one of them still on it
DizoModels ==
    { << <<I(2)>>, <<U(5)>>, <<I(1)>>, <<U(-2)>>, <<I(0), I(-1)>>, <<I(1)>> >>,
      << <<I(1)>>, <<U(2)>>, <<I(1)>>, <<U(2)>>, <<I(1), I(1)>>, <<I(2)>> >> }

\* the number of values zo_update draws: the sizes of the optimised tensors
DrawsPerUpdate(optim) == Offset(optim, Len(optim))

\* the generator where zo_update leaves it: reseeded, every z drawn
RngAfterUpdate(seed, optim) == Advance(ManualSeed(seed), DrawsPerUpdate(optim))

InitDizo ==
    /\ theta \in DizoModels
    /\ anchor = DizoAnchor
    /\ requires_grad = AllTrainable
    /\ named_parameters_to_optim = ToOptimOf(AllTrainable)
    /\ exclude_list = ExcludeListOf(AllTrainable)
    /\ zo_eps = Q(1, 1000) /\ lr = I(1) /\ weight_decay = I(0)
    /\ gradient_accumulation_steps = 1
    /\ enhanced \in {"zo", "fo"}
    /\ zo_random_seed \in Seeds
    /\ rng = RngAfterUpdate(zo_random_seed, named_parameters_to_optim)
    /\ projected_grad = I(0)
    /\ loss1 = None /\ loss2 = None /\ tr_loss_step = I(1)
    /\ global_step = AdaptEvery - 1
    /\ norm_mode = "l2norm"
    /\ constraints_name = ConstraintNames(requires_grad, exclude_list)
    /\ constraints = [k \in 1..Len(constraints_name) |-> I(0)]
    /\ dizo_init = TRUE
    /\ alpha = <<>>
    /\ include_list = <<>>
    /\ ts = None /\ zs = None /\ dloss1 = None /\ dloss2 = None
    /\ count = 0
    /\ max_iters \in (0..MaxK) \cup {OrchestratorMaxIters}
    /\ dizo_i = 0
    /\ loader_len \in 1..MaxLoader
    /\ loader_pos = 0
    /\ r0 = None
    /\ gamma0 = None
    /\ eval_steps = 500
    /\ EvalStart
    /\ max_steps = AdaptEvery * MaxInvocations
    /\ tr_loss = tr_loss_step
    /\ loss_list = <<>>
    /\ globalstep_last_logged = global_step
    /\ logging_nan_inf_filter = TRUE
    /\ tr_loss_prev = I(0)
    /\ bad_step = FALSE
    /\ updates = 1
    /\ sched_steps = 0
    /\ pc = "zu_adapt"
    /\ raised = "none"
    /\ theta_start = theta
    /\ zlog = <<>> /\ evals = <<>> /\ oplog = <<>>

\* lines 1352 and 959-1345: the scheduler step and the AdaptEvery training
\* steps up to the next adaptation, taken together: they leave the optimised
\* tensors at any of the candidate models (a tensor that is not finite stays
\* as it is) and the generator reseeded by the last zo_step
OuterSteps ==
    /\ pc = "zu_sched" /\ dizo_i < MaxInvocations
    /\ \E m \in DizoModels :
          theta' = [i \in Params |-> IF TFinite(theta[i]) THEN m[i] ELSE theta[i]]
    /\ \E seed \in Seeds :
          /\ zo_random_seed' = seed
          /\ rng' = RngAfterUpdate(seed, named_parameters_to_optim)
    /\ global_step' = global_step + AdaptEvery
    /\ updates' = updates + AdaptEvery
    /\ sched_steps' = sched_steps + AdaptEvery
    /\ pc' = "zu_adapt"
    /\ anchor' = BaseModel(anchor, theta')
    /\ UNCHANGED <<evalVars, loopVars, tr_loss_prev, bad_step,
                   requires_grad, named_parameters_to_optim, exclude_list, argVars,
                   projected_grad, loss1, loss2, tr_loss_step, dizoVars, trainerVars,
                   raised, histVars, dizoHist>>

NextDizo ==
    \/ DzCall \/ DzFetch \/ DzNorms
    \/ DzApply1 \/ DzForward1 \/ DzReverse1
    \/ DzPerturb2
    \/ DzApply2 \/ DzForward2 \/ DzReverse2
    \/ DzUpdate \/ DzCommit
    \/ FoCall \/ FoIter \/ FoCommit
    \/ OuterSteps

SpecDizo == InitDizo /\ [][NextDizo]_vars

(***************************************************************************)
(* The training loop with the adaptation inside zo_update: a run, fresh or *)
(* resumed from a checkpoint, that begins shortly before an update on      *)
(* which the adaptation is due.                                            *)
(***************************************************************************)
\* optimizer steps of such a run
TrainSteps == MaxSteps + 1

\* a model whose embedding is frozen: named_parameters_to_optim then starts
\* with another parameter and line 891 excludes every name without 'lora'
EmbedFrozen == [i \in Params |-> ParamNames[i] # "model.decoder.embed_tokens.weight"]

\* the model the run starts from
TrainModel == << <<I(1)>>, <<I(2)>>, <<I(-1)>>, <<I(3)>>, <<I(1), I(-2)>>, <<I(1)>> >>

\* lines 858-861 and 885-910: base_model is a copy of the model as it is when
\* the loop is set up, and the dizo_trainer is built only for 'zo' and 'fo'
InitTrain ==
    /\ theta = TrainModel
    /\ anchor = theta
    /\ \/ requires_grad = AllTrainable /\ lr = I(0)
       \/ requires_grad = EmbedFrozen /\ lr = I(1)
    /\ named_parameters_to_optim = ToOptimOf(requires_grad)
    /\ exclude_list = ExcludeListOf(requires_grad)
    /\ zo_eps = Q(1, 2) /\ weight_decay = I(0)
    /\ gradient_accumulation_steps = 1
    /\ enhanced \in {"zo", "fo", "none"}
    /\ zo_random_seed = -1
    /\ rng = ManualSeed(0)
    /\ projected_grad = None
    /\ loss1 = None /\ loss2 = None /\ tr_loss_step = None
    /\ global_step \in {AdaptEvery - 2, AdaptEvery - 1}
    /\ max_steps = global_step + TrainSteps
    /\ LoopStart
    /\ norm_mode = "l2norm"
    /\ constraints_name = IF enhanced = "none" THEN <<>>
                          ELSE ConstraintNames(requires_grad, exclude_list)
    /\ constraints = [k \in 1..Len(constraints_name) |-> I(0)]
    /\ dizo_init = TRUE
    /\ alpha = <<>>
    /\ include_list = <<>>
    /\ ts = None /\ zs = None /\ dloss1 = None /\ dloss2 = None
    /\ count = 0
    /\ max_iters = IF enhanced = "none" THEN 0 ELSE OrchestratorMaxIters
    /\ dizo_i = 0
    /\ loader_len = MaxLoader
    /\ loader_pos = 0
    /\ r0 = None
    /\ gamma0 = None
    /\ eval_steps = 500
    /\ EvalStart
    /\ pc = "idle"
    /\ raised = "none"
    /\ theta_start = theta
    /\ zlog = <<>> /\ evals = <<>> /\ oplog = <<>>

\* the steps of the loop and of both adaptation strategies.  With the
\* orchestrator's max_iters the first-order strategy raises in its first
\* iteration, so its COMMIT (FoCommit) has no step here.
NextTrain ==
    \/ ZoStepSeed
    \/ ZoStepPerturb1
    \/ ZoStepForward1
    \/ ZoStepPerturb2
    \/ ZoStepForward2
    \/ ZoStepGrad
    \/ ZoStepPerturb3
    \/ AccumulateLoss
    \/ ZoUpdate
    \/ DzCall \/ DzFetch \/ DzNorms
    \/ DzApply1 \/ DzForward1 \/ DzReverse1
    \/ DzPerturb2
    \/ DzApply2 \/ DzForward2 \/ DzReverse2
    \/ DzUpdate \/ DzCommit
    \/ FoCall \/ FoIter
    \/ LrSchedulerStep
    \/ StepEnd

SpecTrain == InitTrain /\ [][NextTrain]_vars


(***************************************************************************)
(* Properties of the zeroth-order estimator.                               *)
(***************************************************************************)
\* the tensors zo_step may touch
Optimised == Range(named_parameters_to_optim)

\* the z of parameter i in the k-th regeneration of the current step
ZOf(k, i) == zlog[k][PosIn(named_parameters_to_optim, i)]

\* the positions of zo_step after the seed is stored
InZoStep == pc \in {"zs_perturb1", "zs_forward1", "zs_perturb2", "zs_forward2",
                    "zs_grad", "zs_perturb3", "zs_returned"}

\* the position right after the parameter update of zo_update
AfterUpdate == pc \in {"zu_sched", "zu_adapt"}

\* C1: zo_step has net zero displacement: when zo_step returns, every tensor
\* of named_parameters_to_optim equals its value before the call, and a tensor
\* outside named_parameters_to_optim holds its value throughout zo_step
C1_NetZeroDisplacement ==
    /\ pc = "zs_returned" => \A i \in Optimised : theta[i] = theta_start[i]
    /\ InZoStep => \A i \in Params \ Optimised : theta[i] = theta_start[i]

\* a zo_step has returned after moving a tensor away and back
C1_Witness ==
    /\ pc = "zs_returned"
    /\ \E i \in Optimised : evals[1].at[i] # theta_start[i] /\ theta[i] = theta_start[i]
    /\ \A i \in Optimised : TFinite(theta[i])

\* C2: the four noise regenerations of one optimizer step (three in zo_step,
\* one in zo_update) yield the same z for every parameter, and the stored
\* seed is the one zo_step sampled
C2_SameNoise ==
    /\ (InZoStep \/ AfterUpdate) =>
          \A k \in 1..Len(zlog) : zlog[k] = zlog[1]
    /\ AfterUpdate => Len(zlog) = 4

\* an update has redrawn a z that is not all zero, after three perturbations
C2_Witness ==
    /\ AfterUpdate
    /\ Len(zlog) = 4
    /\ \E i \in Optimised : \E e \in 1..ParamSize[i] : ZOf(4, i)[e] # I(0)
    /\ rng.seed = zo_random_seed

\* the order of the operations of zo_step
ZoStepOrder == << <<"perturb", 1>>, <<"forward", 1>>, <<"perturb", -2>>,
                  <<"forward", 2>>, <<"perturb", 1>> >>

\* C3: zo_step performs perturb(+1), evaluate L1, perturb(-2), evaluate L2,
\* perturb(+1) in exactly this order; L1 is evaluated at theta + eps*z, L2 at
\* theta - eps*z, and there is no other loss evaluation
C3_StepOrder ==
    /\ InZoStep => /\ Len(oplog) <= Len(ZoStepOrder)
                   /\ oplog = SubSeq(ZoStepOrder, 1, Len(oplog))
    /\ pc = "zs_returned" =>
          /\ oplog = ZoStepOrder
          /\ Len(evals) = 2
          /\ \A i \in Optimised :
                /\ evals[1].at[i] = TAdd(theta_start[i], TScale(ZOf(1, i), zo_eps))
                /\ evals[2].at[i] = TSub(theta_start[i], TScale(ZOf(1, i), zo_eps))
          /\ \A i \in Params \ Optimised :
                evals[1].at[i] = theta_start[i] /\ evals[2].at[i] = theta_start[i]

\* a zo_step has returned whose two evaluations were at different points
C3_Witness ==
    /\ pc = "zs_returned"
    /\ Len(evals) = 2
    /\ \E i \in Optimised : /\ evals[1].at[i] # evals[2].at[i]
                            /\ evals[1].at[i] # theta_start[i]
                            /\ TFinite(evals[1].at[i])

\* C4: zo_step returns L1, the first evaluation, as the step loss and stores
\* g = (L1 - L2) / (2 * eps) with L1 the first and L2 the second evaluation
C4_ReturnsL1StoresG ==
    pc = "zs_returned" =>
        /\ tr_loss_step = evals[1].loss
        /\ projected_grad = Div(Sub(evals[1].loss, evals[2].loss), Add(zo_eps, zo_eps))

\* a zo_step has returned with two different finite losses
C4_Witness ==
    /\ pc = "zs_returned"
    /\ IsFinite(evals[1].loss) /\ IsFinite(evals[2].loss)
    /\ evals[1].loss # evals[2].loss
    /\ IsFinite(projected_grad) /\ projected_grad # I(0)

\* the names that the update rule exempts from weight decay
NoDecayNames ==
    {n \in Range(ParamNames) :
        Contains(n, "bias") \/ Contains(n, "layer_norm") \/ Contains(n, "layernorm")}

\* -lr * (g*z + wd*th0) for a weight tensor, -lr * g*z for an exempt one
UpdateDelta(i) ==
    LET gz == TScale(ZOf(1, i), projected_grad)
    IN  IF ParamNames[i] \in NoDecayNames
        THEN TScale(TScale(gz, lr), I(-1))
        ELSE TScale(TScale(TAdd(gz, TScale(theta_start[i], weight_decay)), lr), I(-1))

Included == {IncludedSeq(exclude_list)[k] : k \in 1..Len(IncludedSeq(exclude_list))}

\* the radius the iterator hands to the included parameter i
RadiusOf(i) == constraints[PosIn(IncludedSeq(exclude_list), i)]

AllRadiiPositive == \A i \in Included : Lt(I(0), RadiusOf(i))

\* the norm, under the configured norm, of the deviation of th from the anchor
DevNorm(th, i) == DeviationNorm(TSub(th[i], anchor[i]), norm_mode)

\* C6: with every radius > 0, apply_constraints followed by
\* reverse_constraints with the ratios that apply cached restores every
\* included parameter to its value before apply.
C6_RoundTrip ==
    (pc = "proj_reversed" /\ AllRadiiPositive) =>
        \A i \in Included : theta[i] = theta_start[i]

\* a round trip of the tensor [3,4] about the anchor [0,0], through [0.6,0.8]
C6_Witness ==
    /\ pc = "proj_reversed" /\ AllRadiiPositive
    /\ 5 \in Included
    /\ theta_start[5] = <<I(3), I(4)>>
    /\ theta[5] = <<I(3), I(4)>>
    /\ alpha["model.decoder.layers.0.self_attn.q_proj.weight"] # I(1)

\* C7 as stated: after apply the norm of (projected - anchor) is the radius,
\* to within a thousandth of the radius, for every included parameter.
C7_NormEqualsRadius ==
    pc = "proj_applied" =>
        \A i \in Included :
            Le(AbsQ(Sub(DevNorm(theta, i), RadiusOf(i))),
               Mul(RadiusOf(i), Q(1, 1000)))

\* C7: after apply the norm of (projected - anchor) is
\* radius * n / (n + 1e-8), n the norm of the deviation before apply: the
\* radius to within the relative error 1e-8 / (n + 1e-8) when the parameter
\* was away from its anchor, whether n was larger or smaller than the radius,
\* and 0, the parameter staying on its anchor, when n = 0.
C7_ProjectedNorm ==
    pc = "proj_applied" =>
        \A i \in Included :
            LET n == DevNorm(theta_start, i)
            IN  /\ DevNorm(theta, i) = Div(Mul(RadiusOf(i), n), Add(n, Eps))
                /\ Le(Mul(n, I(1000)), I(1)) \/
                     Le(AbsQ(Sub(DevNorm(theta, i), RadiusOf(i))),
                        Mul(RadiusOf(i), Q(1, 1000000)))

\* the tensor [3,4] about the anchor [0,0] with radius 1 under the L2 norm:
\* close to [0.6,0.8]; and a parameter that sat on its anchor still there
C7_Witness ==
    /\ pc = "proj_applied"
    /\ norm_mode = "l2norm"
    /\ 5 \in Included /\ 4 \in Included
    /\ theta_start[5] = <<I(3), I(4)>> /\ RadiusOf(5) = I(1)
    /\ theta[5] = <<Q(3 * EpsDen, 5 * EpsDen + 1), Q(4 * EpsDen, 5 * EpsDen + 1)>>
    /\ Lt(RadiusOf(4), DevNorm(theta_start, 4))
    /\ DevNorm(theta, 4) # RadiusOf(4)

(***************************************************************************)
(* Properties of the adaptation of the radii.                              *)
(***************************************************************************)
\* the names of the operations of a log, in order
OpNames(log) == [k \in 1..Len(log) |-> log[k][1]]

\* the operations of one inner iteration of dizo_zo_iters
IterationOps ==
    <<"fetch", "perturb_gamma", "apply", "forward", "reverse",
      "perturb_gamma", "apply", "forward", "reverse", "update">>

\* the operations of an invocation of dizo_zo_iters with k inner iterations
RECURSIVE InvocationOps(_)
InvocationOps(k) ==
    IF k = 0 THEN <<"call">> ELSE InvocationOps(k - 1) \o IterationOps

\* an invocation of the strategy has ended, by return or by an exception
InvocationEnded == pc \in {"zu_sched", "raised"}

\* C8 as stated: after every completed invocation of dizo_zo_iters with
\* K >= 1 every radius lies in [(1 - tau) * r0, (1 + tau) * r0], r0 the
\* deviation norm the radius was reset to in that invocation.
C8_RadiusBounded ==
    (pc = "zu_sched" /\ enhanced = "zo" /\ max_iters >= 1) =>
        \A k \in 1..Len(constraints) :
            /\ Le(Mul(Sub(I(1), tau), r0[k]), constraints[k])
            /\ Le(constraints[k], Mul(Add(I(1), tau), r0[k]))

\* C9: an invocation of dizo_zo_iters with K = max_iters >= 1 never raises;
\* when it has returned it has performed exactly K inner iterations, each
\* one raising count by one up to K, whatever the losses were, then one
\* apply on the live model as its last operation, and the invocation
\* counter is one more than when it was called.
C9_InvocationShape ==
    (enhanced = "zo" /\ max_iters >= 1) =>
        /\ raised = "none"
        /\ count <= max_iters
        /\ pc = "zu_sched" =>
              /\ count = max_iters
              /\ OpNames(oplog) = InvocationOps(max_iters) \o <<"commit">>
              /\ \A k \in 1..max_iters :
                    oplog[1 + k * Len(IterationOps)] = <<"update", k>>
              /\ oplog[1] = <<"call", dizo_i - 1>>
              /\ oplog[Len(oplog)] = <<"commit", dizo_i>>

\* the second invocation of the orchestrator's trainer, ten iterations each,
\* returned although a loss that was not a number reached the radii
C9_Witness ==
    /\ pc = "zu_sched" /\ enhanced = "zo"
    /\ max_iters = OrchestratorMaxIters
    /\ count = OrchestratorMaxIters
    /\ dizo_i = 2
    /\ \E k \in 1..Len(constraints) : IsNaN(constraints[k])

\* C10 as stated: with K >= 1 no invocation of either strategy ends, by
\* return or by an exception, without having completed its K inner
\* iterations and performed the final apply as its last operation.
C10_CommitUnconditional ==
    (enhanced \in {"zo", "fo"} /\ max_iters >= 1 /\ InvocationEnded) =>
        /\ count = max_iters
        /\ oplog # <<>>
        /\ oplog[Len(oplog)][1] = "commit"


(***************************************************************************)
(* Properties of the estimator on bad losses and bad configurations.       *)
(***************************************************************************)
\* one of the two evaluations of the step was nan or inf
BadLoss ==
    /\ Len(evals) = 2
    /\ ~IsFinite(evals[1].loss) \/ ~IsFinite(evals[2].loss)

\* C14: after a step in which L1 or L2 is nan or inf, the zo_update of that
\* step leaves every trainable parameter finite
C14_FiniteAfterBadLoss ==
    (AfterUpdate /\ BadLoss /\ \A i \in Params : TFinite(theta_start[i])) =>
        \A i \in Params : requires_grad[i] => TFinite(theta[i])

\* C15: a gradient-accumulation window greater than 1 is rejected before
\* training starts: when the failure is raised no parameter has been
\* perturbed, no loss has been evaluated, and the parameters equal their
\* initial values
C15_RejectedBeforeTraining ==
    (gradient_accumulation_steps > 1 /\ raised = "AssertionError") =>
        /\ theta = theta_start
        /\ evals = <<>>
        /\ \A k \in 1..Len(oplog) : oplog[k][1] # "perturb"

\* C16: a run configured with eps <= 0 is rejected before the first
\* zeroth-order step, so no zo_step computes g with eps = 0 or a negative eps
C16_EpsValidated ==
    ~Lt(I(0), zo_eps) => (zo_random_seed = -1 /\ projected_grad = None)

\* the steps of this run that ended before the last one
PriorSteps == global_step - 1 - globalstep_last_logged

\* the running average of what the prior steps added to tr_loss
PriorAverage == Div(tr_loss_prev, I(PriorSteps))

\* what the last step added to tr_loss
Contribution == Sub(tr_loss, tr_loss_prev)

\* the step loss recorded for the last step
RecordedLoss == loss_list[Len(loss_list)]

\* C13: whenever L1 or L2 of a step is nan or inf, what the step adds to the
\* accumulated training loss and the step loss recorded for it are the running
\* average of the prior losses, never nan or inf, and the loop goes on
C13_NanFallback ==
    (pc = "idle" /\ global_step > globalstep_last_logged /\ bad_step
        /\ IsFinite(tr_loss_prev)) =>
        /\ raised = "none"
        /\ IsFinite(Contribution)
        /\ IsFinite(RecordedLoss)
        /\ PriorSteps >= 1 => /\ Contribution = PriorAverage
                              /\ RecordedLoss = PriorAverage


(***************************************************************************)
(* Properties of the projection protocol.                                  *)
(***************************************************************************)
\* the last operation was a reverse_constraints that no apply matches
UnmatchedReverseEnded ==
    /\ Len(oplog) >= 1
    /\ oplog[Len(oplog)][1] = "unmatched_reverse"

\* C17: a reverse_constraints that no prior apply matches (never applied, or
\* the ratios of the last apply already used by an earlier reverse) raises
\* an error and modifies no parameter
C17_UnmatchedReverseFails ==
    UnmatchedReverseEnded => (raised # "none" /\ theta = theta_start)

\* a reverse on a DiZO object that never applied has raised KeyError and
\* left every parameter as it was
C17_NeverAppliedRaises ==
    (UnmatchedReverseEnded /\ Len(oplog) = 1) =>
        (raised = "KeyError" /\ theta = theta_start)


(***************************************************************************)
(* Frame properties of the adaptation.                                     *)
(***************************************************************************)
\* the parameters whose name is in the exclusion list
Excluded == {i \in Params : ParamNames[i] \in exclude_list}

\* C19: apply_constraints and reverse_constraints leave every excluded
\* parameter untouched, so throughout an adaptation invocation and after its
\* COMMIT every excluded parameter holds the value it had when the
\* invocation began
C19_ExcludedUntouched ==
    pc # "zu_adapt" => \A i \in Excluded : theta[i] = theta_start[i]

\* an invocation has run inner iterations and committed, moving an included
\* parameter, with excluded parameters present
C19_Witness ==
    /\ pc = "zu_sched" /\ dizo_i >= 1 /\ count >= 1
    /\ oplog[Len(oplog)][1] = "commit"
    /\ Excluded # {}
    /\ \E i \in Params \ Excluded : theta[i] # theta_start[i] /\ TFinite(theta[i])


(***************************************************************************)
(* The lifecycle of the radii.                                             *)
(***************************************************************************)
\* the step of zo_forward that sets ts and zs and perturbs the radii
NormsStep == pc = "dz_norms" /\ pc' = "dz_apply1"

\* C20 as stated: the radii are initialised to the norms only the first time
\* the constraint set is touched; in every later cycle each radius is refined
\* from the value the previous cycle left, not re-initialised
C20_InitialisedOnce ==
    [][(NormsStep /\ dizo_i >= 1) =>
          constraints' = PerturbGamma(constraints, I(1), zs')]_vars

\* C20, amended: in the zeroth-order strategy the first inner iteration of
\* every cycle re-initialises each radius to the norm of (current - anchor),
\* later iterations of the cycle refine the value the iteration before left,
\* and between cycles (the COMMIT, the training steps, the next call) every
\* radius keeps its value
C20_ReinitEachCycle ==
    [][/\ (NormsStep /\ count = 0) =>
              /\ ts' = DeviationNorms(theta, anchor, exclude_list)
              /\ constraints' = PerturbGamma([k \in 1..Len(constraints) |-> ts'[k]],
                                             I(1), zs')
       /\ (NormsStep /\ count > 0) =>
              constraints' = PerturbGamma(constraints, I(1), zs')
       /\ (pc \in {"zu_sched", "zu_adapt"} \/ pc' = "zu_sched") =>
              constraints' = constraints]_vars

\* the first inner iteration of a second cycle has replaced radii that the
\* first cycle had learned by the current norms, which differ from them
C20_Witness ==
    /\ pc = "dz_apply1" /\ count = 0 /\ dizo_i >= 1
    /\ r0 = ts
    /\ \A k \in 1..Len(ts) : IsFinite(ts[k])
    /\ \E k \in 1..Len(ts) : ts[k] # I(0) /\ constraints[k] = Add(ts[k], Mul(zs[k], PerturbScale))


(***************************************************************************)
(* Properties of the training loop with the adaptation.                    *)
(***************************************************************************)
\* the positions inside an adaptation invocation
AdaptPcs == {"zu_adapt", "dz_loop", "dz_norms", "dz_apply1", "dz_forward1",
             "dz_reverse1", "dz_perturb2", "dz_apply2", "dz_forward2", "dz_reverse2",
             "dz_update", "fo_loop"}

\* the updates of this run, up to and including the one counted as step + 1,
\* that fall on a multiple of 50 while the enhancement is 'zo' or 'fo'
DueUpdates(step) ==
    Cardinality({g \in globalstep_last_logged..step :
                    (g + 1) % 50 = 0 /\ enhanced \in {"zo", "fo"}})

\* C11: with the enhancement 'zo' or 'fo' one adaptation cycle runs inside
\* each zo_update for which global_step + 1 is a multiple of 50, after the
\* parameter update and before the scheduler step, and in no other zo_update;
\* with any other enhancement no adaptation runs
C11_Cadence ==
    /\ pc \in AdaptPcs =>
          /\ enhanced \in {"zo", "fo"}
          /\ (global_step + 1) % 50 = 0
          /\ updates = global_step + 1 - globalstep_last_logged
          /\ sched_steps = global_step - globalstep_last_logged
    /\ pc \in {"zu_sched", "zu_done"} => dizo_i = DueUpdates(global_step)
    /\ pc = "idle" => dizo_i = DueUpdates(global_step - 1)
    /\ enhanced = "none" => dizo_i = 0

\* the 50th update, after an update on which no adaptation was due, has run
\* one adaptation cycle to its COMMIT and has yet to step the scheduler
C11_Witness ==
    /\ pc = "zu_sched"
    /\ global_step = 49 /\ updates = 2 /\ sched_steps = 1
    /\ dizo_i = 1 /\ count = max_iters /\ count > 0

\* the positions of zo_step
ZoStepPcs == {"zs_perturb1", "zs_forward1", "zs_perturb2", "zs_forward2", "zs_grad",
              "zs_perturb3"}

\* C12: the adaptation and the zeroth-order step are never interleaved: a
\* cycle starts only when zo_step has run to its end and restored the
\* parameters and zo_update has applied the update, so that the parameters
\* are the start of the step moved by the update alone, with no perturbation
\* left in them; and while zo_step perturbs no cycle is in progress, every
\* cycle entered before having reached its COMMIT
C12_NeverInterleaved ==
    /\ pc = "zu_adapt" =>
          /\ oplog = Append(ZoStepOrder, <<"update", 0>>)
          /\ \A i \in Optimised : theta[i] = TAdd(theta_start[i], UpdateDelta(i))
          /\ \A i \in Params \ Optimised : theta[i] = theta_start[i]
    /\ pc \in AdaptPcs => loss1 = None /\ loss2 = None
    /\ pc \in ZoStepPcs =>
          /\ ts = None /\ zs = None /\ dloss1 = None /\ dloss2 = None
          /\ enhanced = "zo" => dizo_i = DueUpdates(global_step - 1)

\* an adaptation is about to start after a zo_step that perturbed the
\* parameters and a zo_update that moved them
C12_Witness ==
    /\ pc = "zu_adapt"
    /\ IsFinite(projected_grad) /\ projected_grad # I(0)
    /\ \E i \in Optimised : /\ evals[1].at[i] # theta_start[i]
                            /\ evals[2].at[i] # theta_start[i]
                            /\ theta[i] # theta_start[i]
                            /\ TFinite(theta[i])

\* C18: the anchor is never mutated after its creation: through every
\* zo_step, zo_update, apply, reverse, inner iteration and COMMIT each anchor
\* tensor holds the value of the snapshot taken when training was set up,
\* which is therefore the anchor the COMMIT projects against
C18_AnchorFrozen == anchor = TrainModel

\* a cycle has committed on a live model that updates and the cycle's
\* projections have moved away from the anchor
C18_Witness ==
    /\ pc = "zu_sched" /\ dizo_i = 1
    /\ oplog[Len(oplog)][1] = "commit" /\ count = max_iters
    /\ \E i \in Params : theta[i] # anchor[i]
    /\ \E i \in Params : TFinite(theta[i])


(***************************************************************************)
(* Properties of the inner iteration of the zeroth-order adaptation.       *)
(***************************************************************************)
\* the positions at which the radii carry the first and the second probe
PlusProbePcs == {"dz_apply1", "dz_forward1", "dz_reverse1"}

MinusProbePcs == {"dz_apply2", "dz_forward2", "dz_reverse2", "dz_update"}

\* the radius k lies in [(1 - tau) * base, (1 + tau) * base]
WithinBound(k, base) ==
    /\ Le(Mul(Sub(I(1), tau), base), constraints[k])
    /\ Le(constraints[k], Mul(Add(I(1), tau), base))

\* C21 as stated: in every state of an invocation of dizo_zo_iters after the
\* radii were initialised, the states with the radii perturbed for the two
\* probes included, each radius lies in [(1 - tau) * r0, (1 + tau) * r0]
C21_BoundAlways ==
    (enhanced = "zo" /\ r0 # None
        /\ (pc \in PlusProbePcs \cup MinusProbePcs \/ pc = "dz_loop")) =>
        \A k \in 1..Len(constraints) : WithinBound(k, r0[k])

\* C21, amended: while the radii are perturbed they are the value before the
\* probes plus 0.2 * z, then minus 0.2 * z, whatever the bound; the bound is
\* that of the clipped update alone: after each update a radius lies in
\* [(1 - tau) * r0, (1 + tau) * r0] unless it is nan
C21_BoundAfterUpdate ==
    /\ pc \in PlusProbePcs =>
          \A k \in 1..Len(constraints) :
              constraints[k] = Add(gamma0[k], Mul(PerturbScale, zs[k]))
    /\ pc \in MinusProbePcs =>
          \A k \in 1..Len(constraints) :
              constraints[k] = Sub(gamma0[k], Mul(PerturbScale, zs[k]))
    /\ (enhanced = "zo" /\ pc = "dz_loop" /\ count >= 1) =>
          \A k \in 1..Len(constraints) :
              IsNaN(constraints[k]) \/ WithinBound(k, r0[k])

\* a probe state in which a finite radius lies above (1 + tau) * r0
C21_Witness ==
    /\ pc \in PlusProbePcs
    /\ \E k \in 1..Len(constraints) :
          /\ IsFinite(constraints[k]) /\ IsFinite(r0[k]) /\ r0[k] # I(0)
          /\ Lt(Mul(Add(I(1), tau), r0[k]), constraints[k])

\* the positions of an inner iteration at which no apply awaits its reverse
RestoredPcs ==
    {"dz_loop", "dz_norms", "dz_apply1", "dz_perturb2", "dz_apply2", "dz_update"}

\* the log a is the beginning of the log b
IsPrefix(a, b) ==
    /\ Len(a) <= Len(b)
    /\ \A k \in 1..Len(a) : a[k] = b[k]

\* C22 as stated: the operations of an invocation of dizo_zo_iters are, per
\* inner iteration, perturb(+1), apply, L_plus, reverse, perturb(-2), apply,
\* L_minus, reverse, perturb(+1) with the update; every apply is undone by
\* its reverse before the next apply, so wherever no apply awaits its
\* reverse, the end of each inner iteration included, the live model equals
\* the model the invocation was called with
C22_ProbesLeaveModel ==
    (enhanced = "zo" /\ pc \in RestoredPcs \cup {"dz_forward1", "dz_reverse1",
                                                "dz_forward2", "dz_reverse2"}) =>
        /\ IsPrefix(OpNames(oplog), InvocationOps(count + 1))
        /\ \A k \in 1..Len(oplog) :
              oplog[k][1] = "perturb_gamma" => oplog[k][2] \in {1, -2}
        /\ pc \in RestoredPcs => theta = theta_start

\* the first probe, its loss finite, has been reversed and the live model
\* holds a nan
C22_NanAfterReverse ==
    /\ enhanced = "zo" /\ pc = "dz_perturb2" /\ IsFinite(dloss1)
    /\ \E i \in 1..NP : \E j \in 1..ParamSize[i] : IsNaN(theta[i][j])

\* the index of the parameter called name
IndexOfName(name) == CHOOSE i \in Params : ParamNames[i] = name

\* grad of line 442 in the claim's terms: (L_plus - L_minus) / (2 * step)
ProbeGrad == Div(Sub(dloss1, dloss2), Mul(I(2), PerturbScale))

\* C23: the norm t of a radius is the deviation norm of that radius's
\* parameter when the iteration starts; after perturb_gamma(+1), (-2), (+1)
\* with the same z every radius is its value before the probes, and the
\* update writes clip(r_baseline - 10 * grad * z, (1 - tau) * t, (1 + tau) * t)
\* with grad = (L_plus - L_minus) / (2 * 0.2) and the z of the two probes
C23_RadiusUpdate ==
    [][/\ (pc = "dz_norms" /\ pc' = "dz_apply1") =>
            \A k \in 1..Len(constraints) :
                LET i == IndexOfName(constraints_name[k])
                IN  /\ ts'[k] = NormL2(TSub(theta[i], anchor[i]))
                    /\ constraints'[k] = Add(gamma0'[k], Mul(PerturbScale, zs'[k]))
       /\ (pc = "dz_perturb2" /\ pc' = "dz_apply2") =>
            \A k \in 1..Len(constraints) :
                constraints'[k] = Sub(gamma0[k], Mul(PerturbScale, zs[k]))
       /\ (pc = "dz_update" /\ pc' = "dz_loop") =>
            \A k \in 1..Len(constraints) :
                constraints'[k] =
                    Clip(Sub(gamma0[k], Mul(Mul(RadiusLr, ProbeGrad), zs[k])),
                         Mul(Sub(I(1), tau), ts[k]), Mul(Add(I(1), tau), ts[k]))]_vars

\* an update has moved a radius off the norm it was reset to, onto the upper
\* end of its interval, and has left another inside its interval
C23_Witness ==
    /\ enhanced = "zo" /\ pc = "dz_loop" /\ count = 1
    /\ \E k \in 1..Len(constraints) :
          /\ IsFinite(constraints[k]) /\ r0[k] # I(0)
          /\ constraints[k] = Mul(Add(I(1), tau), r0[k])
    /\ \E k \in 1..Len(constraints) :
          /\ IsFinite(constraints[k]) /\ r0[k] # I(0)
          /\ constraints[k] = r0[k]

(***************************************************************************)
(* The loader of the adaptation.  The training loop is one sequential      *)
(* thread: whatever step is enabled is taken, which is weak fairness of    *)
(* the next-state action, WF_vars(NextDizo).  It is stated with the        *)
(* states in which no step is enabled written out.                         *)
(***************************************************************************)
\* no step of NextDizo is enabled: an exception has ended the run, or the
\* last invocation has returned
Stopped == pc = "raised" \/ (pc = "zu_sched" /\ dizo_i >= MaxInvocations)

SpecDizoFair == SpecDizo /\ ([]<>Stopped \/ []<><<NextDizo>>_vars)

\* the number of batches the invocation in progress has fetched
Fetched == Cardinality({k \in 1..Len(oplog) : oplog[k][1] = "fetch"})

\* C24: the loader is cyclic.  An invocation of dizo_zo_iters with K =
\* max_iters on a loader of at least one batch never fails for lack of a
\* batch; every fetch takes the batch after the last one taken, the first
\* one again after the last of the loader, the position being moved by
\* nothing else, so it is carried from one invocation to the next; the
\* invocation has fetched as many batches as it has started iterations and
\* exactly K when it has returned; and every invocation called returns.
C24_CyclicLoader ==
    /\ [](enhanced = "zo" /\ loader_len >= 1 =>
            /\ raised # "StopIteration"
            /\ pc \in {"dz_loop", "zu_sched"} => Fetched = count
            /\ pc \in AdaptPcs \ {"dz_loop", "zu_adapt"} => Fetched = count + 1
            /\ pc = "zu_sched" => Fetched = max_iters)
    /\ [][enhanced = "zo" /\ loader_len >= 1 =>
            IF pc = "dz_loop" /\ pc' # "zu_sched"
            THEN /\ loader_pos' = (loader_pos % loader_len) + 1
                 /\ oplog' = Append(oplog, <<"fetch", loader_pos'>>)
            ELSE loader_pos' = loader_pos]_vars
    /\ (enhanced = "zo" /\ loader_len >= 1 /\ pc = "zu_adapt") ~> (pc = "zu_sched")

\* the second invocation, of one iteration, has returned after taking the
\* second batch of a loader of two: the first invocation had taken the first
C24_Witness ==
    /\ enhanced = "zo" /\ pc = "zu_sched" /\ dizo_i = 2
    /\ max_iters = 1 /\ loader_len = 2 /\ loader_pos = 2
    /\ oplog[2] = <<"fetch", 2>>

(***************************************************************************)
(* Properties of the pairing of zo_step, zo_update and the step count.     *)
(***************************************************************************)
\* the positions from the parameter update of zo_update to the count of the
\* step
UpdatePcs == (AdaptPcs \cup {"zu_sched", "zu_done"})

\* C25 as stated: with gradient_accumulation_steps = 1 every zo_update comes
\* after exactly one zo_step since the last zo_update and uses the seed and
\* the g that zo_step stored, and every zo_update is followed by exactly one
\* increment of global_step and one append to loss_list: no run ends with an
\* update that was not counted
C25_UpdatePaired ==
    /\ [](gradient_accumulation_steps = 1 =>
            /\ updates - Len(loss_list) \in {0, 1}
            /\ updates = Len(loss_list) + 1 => pc \in UpdatePcs)
    /\ [][gradient_accumulation_steps = 1 =>
            /\ updates' # updates =>
                  /\ updates' = updates + 1
                  /\ updates = Len(loss_list)
                  /\ oplog = ZoStepOrder
                  /\ tr_loss_step = evals[1].loss
                  /\ projected_grad =
                        Div(Sub(evals[1].loss, evals[2].loss), Add(zo_eps, zo_eps))
                  /\ zlog'[Len(zlog')] = zlog[1]
                  /\ \A i \in Optimised : theta'[i] = TAdd(theta[i], UpdateDelta(i))
            /\ (global_step' # global_step \/ loss_list' # loss_list) =>
                  /\ global_step' = global_step + 1
                  /\ loss_list' = Append(loss_list, tr_loss_step)
                  /\ updates = Len(loss_list')]_vars

\* the part of C25 that holds: the pairing of each zo_update with the one
\* zo_step before it, and of each counted step with the one zo_update before
\* it
C25_PairedUntilRaise ==
    /\ [](gradient_accumulation_steps = 1 =>
            /\ updates - Len(loss_list) \in {0, 1}
            /\ updates = Len(loss_list) + 1 => pc \in UpdatePcs \cup {"raised"})
    /\ [][gradient_accumulation_steps = 1 =>
            /\ updates' # updates =>
                  /\ updates' = updates + 1
                  /\ updates = Len(loss_list)
                  /\ oplog = ZoStepOrder
                  /\ zlog'[Len(zlog')] = zlog[1]
            /\ (global_step' # global_step \/ loss_list' # loss_list) =>
                  /\ global_step' = global_step + 1
                  /\ loss_list' = Append(loss_list, tr_loss_step)
                  /\ updates = Len(loss_list')]_vars

\* a run has ended by an exception after a zo_update that was never counted
C25_UncountedUpdate ==
    /\ pc = "raised" /\ gradient_accumulation_steps = 1
    /\ updates = Len(loss_list) + 1

(***************************************************************************)
(* The pairing of radii and parameters: a DiZO object built for a model    *)
(* some of whose parameters are frozen, then apply and reverse.            *)
(***************************************************************************)
\* requires_grad of the model the object is built from: every parameter
\* trainable, q_proj.weight frozen, k_proj.bias frozen
PairFlags ==
    { AllTrainable,
      [i \in Params |-> ParamNames[i] # "model.decoder.layers.0.self_attn.q_proj.weight"],
      [i \in Params |-> ParamNames[i] # "model.decoder.layers.0.self_attn.k_proj.bias"] }

\* lines 885-904 and 249-256: the exclusion list is the orchestrator's or any
\* of ProjExcludeLists, the radii are created for the parameters that are not
\* excluded and require grad
InitPairing ==
    /\ theta \in ProjModels
    /\ anchor = ProjAnchor
    /\ requires_grad \in PairFlags
    /\ named_parameters_to_optim = ToOptimOf(requires_grad)
    /\ exclude_list \in ProjExcludeLists \cup {ExcludeListOf(requires_grad)}
    /\ zo_eps = Q(1, 1000) /\ lr = I(1) /\ weight_decay = I(0)
    /\ gradient_accumulation_steps = 1
    /\ enhanced = "zo"
    /\ zo_random_seed = -1
    /\ rng = ManualSeed(0)
    /\ projected_grad = None
    /\ loss1 = None /\ loss2 = None /\ tr_loss_step = None
    /\ global_step = 0
    /\ norm_mode = "l2norm"
    /\ constraints_name = ConstraintNames(requires_grad, exclude_list)
    /\ constraints \in RadiiSeqs(Len(constraints_name))
    /\ dizo_init = TRUE
    /\ alpha = <<>>
    /\ include_list = <<>>
    /\ ts = None /\ zs = None /\ dloss1 = None /\ dloss2 = None
    /\ count = 0 /\ max_iters = 0 /\ dizo_i = 0
    /\ loader_len = 1 /\ loader_pos = 0
    /\ r0 = None
    /\ gamma0 = None
    /\ eval_steps = 500
    /\ EvalStart
    /\ max_steps = 0
    /\ LoopStart
    /\ pc = "proj_ready"
    /\ raised = "none"
    /\ theta_start = theta
    /\ zlog = <<>> /\ evals = <<>> /\ oplog = <<>>

SpecPairing == InitPairing /\ [][NextProj]_vars

\* the radii and the parameters an apply has projected pair up: the k-th
\* radius is the one created for the k-th parameter that is not excluded and
\* gives that parameter's ratio
PairedUp ==
    /\ Len(include_list) = Len(constraints)
    /\ include_list = constraints_name
    /\ \A k \in 1..Len(include_list) :
          LET i == IndexOfName(include_list[k])
          IN  /\ i = IncludedSeq(exclude_list)[k]
              /\ alpha[include_list[k]] =
                    ProjectRatio(theta_start[i], anchor[i], constraints[k], norm_mode)

\* C26 as stated: for any model, exclusion list and trainable flags an apply
\* never exhausts the iterator of the radii and leaves no radius unused, and
\* the i-th radius is the one created for the i-th parameter that is not
\* excluded and scales that parameter
C26_RadiiPaired ==
    /\ raised # "StopIteration"
    /\ pc = "proj_applied" => PairedUp

\* the part of C26 that holds: an apply on an object that holds as many
\* radii as parameters are not excluded returns and pairs them up
C26_PairedWhenComplete ==
    Len(constraints) = Len(IncludedSeq(exclude_list)) =>
        /\ raised # "StopIteration"
        /\ pc = "proj_applied" => PairedUp

\* an apply has raised StopIteration after projecting a frozen parameter with
\* the radius created for another one
C26_Mispaired ==
    /\ pc = "raised" /\ raised = "StopIteration"
    /\ \E k \in 1..Len(include_list) : include_list[k] # constraints_name[k]
    /\ theta # theta_start

(***************************************************************************)
(* Properties of the ratios and of the COMMIT.                             *)
(***************************************************************************)
\* every element of every tensor of the model th is finite
ModelFinite(th) == \A i \in Params : TFinite(th[i])

\* C27 as stated: whenever reverse_constraints runs within zo_forward every
\* cached ratio is non-zero, so that the reverse divides by no zero and
\* writes no value that is not finite, whatever the parameter, its anchor
\* (the parameter on its anchor included) and the draw z
C27_RatiosNonZero ==
    /\ (enhanced = "zo" /\ pc \in {"dz_reverse1", "dz_reverse2"}) =>
          \A nm \in DOMAIN alpha : alpha[nm] # I(0)
    /\ (enhanced = "zo" /\ pc \in {"dz_perturb2", "dz_update"}
          /\ ModelFinite(theta_start)) => ModelFinite(theta)

\* a reverse has divided by a ratio of 0 although both radii were finite and
\* the first loss was finite: the live model holds a nan
C27_ZeroRatioReversed ==
    /\ enhanced = "zo" /\ pc = "dz_perturb2"
    /\ \E nm \in DOMAIN alpha : alpha[nm] = I(0)
    /\ \A k \in 1..Len(constraints) : IsFinite(constraints[k])
    /\ IsFinite(dloss1)
    /\ ~ModelFinite(theta)

\* the deviation of parameter i of the model th from its anchor
Deviation(th, i) == TSub(th[i], anchor[i])

\* C28 as stated: an invocation of dizo_zo_iters with K >= 1 only rescales
\* the deviation of every included parameter: after the COMMIT the deviation
\* is the one before the invocation times a positive factor, and its norm is
\* between (1 - tau) and (1 + tau) times the norm before the invocation
C28_OnlyRescaled ==
    (enhanced = "zo" /\ pc = "zu_sched" /\ max_iters >= 1) =>
        \A k \in 1..Len(include_list) :
            LET i      == IndexOfName(include_list[k])
                before == NormL2(Deviation(theta_start, i))
                after  == NormL2(Deviation(theta, i))
            IN  /\ Le(Mul(Sub(I(1), tau), before), after)
                /\ Le(after, Mul(Add(I(1), tau), before))
                /\ before # I(0) =>
                      /\ Lt(I(0), Div(after, before))
                      /\ Deviation(theta, i) =
                            TScale(Deviation(theta_start, i), Div(after, before))

\* a COMMIT after finite losses has left a deviation shorter than
\* (1 - tau) times the deviation before the invocation
C28_ShortOfBound ==
    /\ enhanced = "zo" /\ pc = "zu_sched" /\ max_iters >= 1
    /\ ModelFinite(theta)
    /\ \E k \in 1..Len(include_list) :
          LET i == IndexOfName(include_list[k])
          IN  /\ constraints[k] = Mul(Sub(I(1), tau), r0[k])
              /\ Lt(NormL2(Deviation(theta, i)),
                    Mul(Sub(I(1), tau), NormL2(Deviation(theta_start, i))))

\* a COMMIT has written a nan into an included parameter
C28_NanCommitted ==
    /\ enhanced = "zo" /\ pc = "zu_sched" /\ max_iters >= 1
    /\ ModelFinite(theta_start)
    /\ \E k \in 1..Len(include_list) :
          \E e \in 1..ParamSize[IndexOfName(include_list[k])] :
              IsNaN(theta[IndexOfName(include_list[k])][e])

\* C29: a COMMIT executed while every radius holds its construction value 0,
\* as it is when max_iters = 0 so that no inner iteration runs before the
\* final apply, sets every parameter that is not excluded to its anchor
C29_ZeroRadiiCommit ==
    (enhanced \in {"zo", "fo"} /\ pc = "zu_sched" /\ dizo_i >= 1 /\ max_iters = 0) =>
        /\ \A k \in 1..Len(constraints) : constraints[k] = I(0)
        /\ \A i \in Params :
              ParamNames[i] \notin exclude_list => theta[i] = anchor[i]

\* a COMMIT with radii of 0 has returned: an included parameter that was
\* away from its anchor before the invocation is on it
C29_Witness ==
    /\ enhanced = "zo" /\ pc = "zu_sched" /\ dizo_i >= 1 /\ max_iters = 0
    /\ oplog = << <<"call", dizo_i - 1>>, <<"commit", dizo_i>> >>
    /\ \E i \in Params :
          /\ ParamNames[i] \notin exclude_list
          /\ theta_start[i] # anchor[i]
          /\ theta[i] = anchor[i]

(***************************************************************************)
(* The evaluations of a run and its best checkpoint: a run of the          *)
(* zeroth-order trainer from the step before the first evaluation to the   *)
(* last of MaxEvals evaluations.                                           *)
(***************************************************************************)
MaxEvals == 2

\* the models the optimizer steps may leave
EvalModels == InitModels

\* the step losses that are followed
EvalStepLosses == {I(1), NaN}

InitEval ==
    /\ theta = TrainModel
    /\ anchor = theta
    /\ requires_grad = AllTrainable
    /\ named_parameters_to_optim = ToOptimOf(AllTrainable)
    /\ exclude_list = ExcludeListOf(AllTrainable)
    /\ zo_eps = Q(1, 2) /\ lr = I(1) /\ weight_decay = I(0)
    /\ gradient_accumulation_steps = 1
    /\ enhanced = "none"
    /\ zo_random_seed = -1
    /\ rng = ManualSeed(0)
    /\ projected_grad = None
    /\ loss1 = None /\ loss2 = None /\ tr_loss_step = None
    /\ global_step = EvalSteps - 2
    /\ max_steps = MaxEvals * EvalSteps
    /\ LoopStart
    /\ eval_steps \in ConfiguredEvalSteps
    /\ EvalStart
    /\ DizoUnused
    /\ pc = "idle"
    /\ raised = "none"
    /\ theta_start = theta
    /\ zlog = <<>> /\ evals = <<>> /\ oplog = <<>>

\* the number of steps up to the next multiple of EvalSteps
StepsLeft(step) == EvalSteps - (step % EvalSteps)

\* lines 959-1050 of d optimizer steps taken together, the last of them up
\* to its count: zo_step, the accumulation of the loss, zo_update and the
\* scheduler step, which leave the model at any of the candidates, the
\* generator reseeded and a step loss for line 1062; d is 1, or the number
\* of steps up to the next multiple of EvalSteps, none of which evaluates but
\* the last (single steps are followed from two steps before a multiple to
\* one step after it).  The losses of the steps before the last are not
\* followed.
StepBodies ==
    /\ pc = "idle"
    /\ global_step < max_steps
    /\ \E d \in {1, StepsLeft(global_step)} :
          /\ d = 1 => StepsLeft(global_step) \in {1, 2, EvalSteps}
          /\ global_step' = global_step + d - 1
          /\ updates' = updates + d
          /\ sched_steps' = sched_steps + d
    /\ \E m \in EvalModels : theta' = m
    /\ \E seed \in Seeds :
          /\ zo_random_seed' = seed
          /\ rng' = RngAfterUpdate(seed, named_parameters_to_optim)
    /\ \E l \in EvalStepLosses : tr_loss_step' = l
    /\ pc' = "zu_done"
    /\ anchor' = BaseModel(anchor, theta')
    /\ UNCHANGED <<evalVars, loopVars, tr_loss_prev, bad_step,
                   requires_grad, named_parameters_to_optim, exclude_list, argVars,
                   projected_grad, loss1, loss2, dizoVars, trainerVars,
                   raised, histVars, dizoHist>>

NextEval == StepBodies \/ StepEnd

SpecEval == InitEval /\ [][NextEval]_vars

\* the largest of 0 and the metrics evaluated so far
BestSoFar ==
    LET all == {I(0)} \cup Range(accuracy)
    IN  CHOOSE x \in all : \A y \in all : Le(y, x)

\* C30: the best checkpoint.  Whatever eval_steps was configured, the count
\* of a step evaluates the model exactly when the new global_step is a
\* multiple of 200; the objective never decreases and is the largest of 0
\* and the metrics evaluated so far; an evaluation replaces the objective and
\* the best checkpoint, by the metric and the model as it is, exactly when
\* the metric is at least the objective, a tie included; the best checkpoint
\* is never set while every metric was below 0.
C30_BestCheckpoint ==
    /\ [](/\ Len(accuracy) = (global_step \div EvalSteps) - ((EvalSteps - 2) \div EvalSteps)
          /\ objective = BestSoFar
          /\ best_model_ckpt = None <=>
                \A k \in 1..Len(accuracy) : Lt(accuracy[k], I(0)))
    /\ [][/\ Le(objective, objective')
          /\ global_step' # global_step /\ pc = "zu_done" => eval_steps' = EvalSteps
          /\ IF pc = "zu_done" /\ global_step' % EvalSteps = 0
             THEN /\ Len(accuracy') = Len(accuracy) + 1
                  /\ accuracy = SubSeq(accuracy', 1, Len(accuracy))
                  /\ LET m == accuracy'[Len(accuracy')]
                     IN  IF Le(objective, m)
                         THEN objective' = m /\ best_model_ckpt' = theta
                         ELSE /\ objective' = objective
                              /\ best_model_ckpt' = best_model_ckpt
             ELSE /\ accuracy' = accuracy
                  /\ objective' = objective
                  /\ best_model_ckpt' = best_model_ckpt]_vars

\* the second evaluation has tied with the first on a metric above 0 and the
\* best checkpoint is the model as the second evaluation found it; more
\* steps were counted than evaluated
C30_Witness ==
    /\ pc = "idle" /\ global_step = 2 * EvalSteps
    /\ accuracy = <<Q(1, 2), Q(1, 2)>>
    /\ objective = Q(1, 2)
    /\ best_model_ckpt = theta
    /\ Len(loss_list) > Len(accuracy)

====
